---- MODULE Spec2Model ----
(***************************************************************************)
(* Model of the reflect-ai gateway: the Anthropic-to-OpenAI streaming      *)
(* adapter (src/server/claude-openai-converter.ts) and the response bridge *)
(* of the Bun server (src/server/index.ts, last revision in the file).     *)
(*                                                                         *)
(* Strings are sequences of one-character strings, so that escaping and    *)
(* concatenation are computed rather than assumed.  An optional value      *)
(* (T | null) is a sequence of length at most one.  A JavaScript object    *)
(* whose property is undefined is a record without that field.             *)
(***************************************************************************)
EXTENDS Integers, Sequences, FiniteSets, TLC

VARIABLES
    adapter,   \* the AnthropicToOpenAIAdapter instance under test (its private fields)
    evts,      \* events passed to processEvent so far, in order
    out,       \* chunks returned by processEvent so far, each with the number of its event
    lastCall,  \* what the last processEvent call emitted, returned and threw
    phase,     \* "open" while the adapter is bound, "stopped" after message_stop
    clients,               \* the clients Map, in insertion order
    conversationToClient,  \* conversation id -> clientId
    wsData,                \* ws.data of each tab's connection: adapter and openaiRequestId
    listeners,             \* the listeners registered on streamBridge, in registration order
    requests,              \* completion requests received, by number: sink and response
    sent,                  \* messages the server sent to workers
    nFrames,               \* worker frames handled so far
    now,                   \* Date.now(), in ticks
    lastSweep,             \* history: the registry before and after the sweep, if the
                           \* last step was one
    sockets,               \* the websocket connections opened so far, each open, closing
                           \* or closed, and the connection each registry entry was
                           \* made for
    claudeMessage,         \* the materialized message given to convertToOpenAICompletion
    completion             \* the completion it returned

convertVars == <<claudeMessage, completion>>
adapterVars == <<adapter, evts, out, phase, convertVars, sockets>>
serverVars == <<clients, conversationToClient, wsData, listeners, requests, sent, nFrames,
                now, lastSweep>>
vars == <<adapter, evts, out, lastCall, phase,
          clients, conversationToClient, wsData, listeners, requests, sent, nFrames,
          now, lastSweep, claudeMessage, completion, sockets>>

----------------------------------------------------------------------------
(* Bounds *)

MaxEvents == 3
MaxIndex == 1
MaxTextEvents == 5
MaxDeltas == 2
MaxRequests == 2
MaxFrames == 3
MaxRegistryFrames == 2
MaxRegistryRequests == 1
MaxBlocks == 2
MaxSockets == 3

Indices == 0..MaxIndex

----------------------------------------------------------------------------
(* Characters and string helpers *)

BS == "\\"
DQ == "\""
NL == "\n"
CR == "\r"
TAB == "\t"

RECURSIVE Flatten(_)
Flatten(ss) == IF ss = <<>> THEN <<>> ELSE Head(ss) \o Flatten(Tail(ss))

\* String.prototype.replace(/c/g, rep): every occurrence of the character c
ReplaceAll(s, c, rep) ==
    Flatten([i \in 1..Len(s) |-> IF s[i] = c THEN rep ELSE <<s[i]>>])

\* the mutant: backslashes are doubled last, after the other escapes were inserted
escapeJsonStringBackslashLast(str) ==
    ReplaceAll(ReplaceAll(ReplaceAll(ReplaceAll(ReplaceAll(str,
        DQ, <<BS, DQ>>), NL, <<BS, "n">>), CR, <<BS, "r">>), TAB, <<BS, "t">>),
        BS, <<BS, BS>>)

escapeJsonString(str) ==
    ReplaceAll(ReplaceAll(ReplaceAll(ReplaceAll(ReplaceAll(str,
        BS, <<BS, BS>>), DQ, <<BS, DQ>>), NL, <<BS, "n">>), CR, <<BS, "r">>),
        TAB, <<BS, "t">>)

\* JavaScript Map helpers
MapGet(m, k, dflt) == IF k \in DOMAIN m THEN m[k] ELSE dflt
\* the mutant: a key that is present keeps its value
MapSetKeepsFirst(m, k, v) == [x \in (DOMAIN m) \cup {k} |-> IF x \in DOMAIN m THEN m[x] ELSE v]
MapSet(m, k, v) == [x \in (DOMAIN m) \cup {k} |-> IF x = k THEN v ELSE m[x]]
EmptyMap == [x \in {} |-> <<>>]

\* a || b on strings
OrElse(a, b) == IF a = <<>> THEN b ELSE a

----------------------------------------------------------------------------
(* The adapter: src/server/claude-openai-converter.ts *)

Null == "null"
None == <<>>
Some(x) == <<x>>
EmptyObject == [x \in {} |-> Null]

ThoughtsOpen == <<"{", DQ, "t", "h", "o", "u", "g", "h", "t", "s", DQ, ":", DQ>>
ThinkingClose == <<DQ, "}">>
ToolOpen == <<"{">>
ToolClose == <<"}">>

\* the private fields after construction (created and startTime are clock
\* readings that no chunk field modelled here depends on)
NewAdapter ==
    [ accumulatedText       |-> EmptyMap,
      messageId             |-> Null,
      model                 |-> Null,
      stopReason            |-> Null,
      usageInfo             |-> None,
      finishedBlocks        |-> {},
      blockTypes            |-> EmptyMap,
      toolCallIds           |-> EmptyMap,
      currentThinkingBlocks |-> {},
      currentToolUseBlocks  |-> {},
      toolInputBuffers      |-> EmptyMap ]

\* the mutant: the open tool_use set and the stop reason survive the reset
resetKeepsOpenToolUse(ad) ==
    [NewAdapter EXCEPT !.currentToolUseBlocks = ad.currentToolUseBlocks,
                       !.stopReason = ad.stopReason]

reset(ad) == NewAdapter

\* no modelMapping option is configured by the server
mapModel(claudeModel) == claudeModel

\* the mutant: an unknown or missing stop reason is reported as a normal stop
mapStopReasonDefaultStop(claudeStopReason) ==
    CASE claudeStopReason = "end_turn" -> "stop"
      [] claudeStopReason = "max_tokens" -> "length"
      [] claudeStopReason = "stop_sequence" -> "stop"
      [] claudeStopReason = "tool_use" -> "function_call"
      [] OTHER -> "stop"

\* the mutant: running out of tokens is reported as a normal stop
mapStopReasonLengthAsStop(claudeStopReason) ==
    CASE claudeStopReason = "end_turn" -> "stop"
      [] claudeStopReason = "max_tokens" -> "stop"
      [] claudeStopReason = "stop_sequence" -> "stop"
      [] claudeStopReason = "tool_use" -> "function_call"
      [] OTHER -> Null

mapStopReason(claudeStopReason) ==
    CASE claudeStopReason = "end_turn" -> "stop"
      [] claudeStopReason = "max_tokens" -> "length"
      [] claudeStopReason = "stop_sequence" -> "stop"
      [] claudeStopReason = "tool_use" -> "function_call"
      [] OTHER -> Null

\* id: this.messageId || `chatcmpl-${Date.now()}`, model: this.model || 'claude'
Chunk(ad, delta, finish_reason, withUsage) ==
    [ id            |-> IF ad.messageId = Null THEN "chatcmpl-now" ELSE ad.messageId,
      model         |-> IF ad.model = Null THEN "claude" ELSE ad.model,
      delta         |-> delta,
      finish_reason |-> finish_reason,
      usage         |-> IF withUsage THEN ad.usageInfo ELSE None ]

ToolCallStart(id, name, arguments) ==
    [tool_calls |-> <<[index |-> 0, id |-> id, type |-> "function",
                       function |-> [name |-> name, arguments |-> arguments]]>>]

ToolCallDelta(id, arguments) ==
    [tool_calls |-> <<[index |-> 0, id |-> id,
                       function |-> [arguments |-> arguments]]>>]

handleThinkingBlockStart(ad, event) ==
    LET index == event.index
        content_block == event.content_block
        toolCallId == <<"call_thinking", index>>
        initialThinking == IF "thinking" \in DOMAIN content_block
                           THEN content_block.thinking ELSE <<>>
        ad1 == [ad EXCEPT
                  !.toolCallIds = MapSet(@, index, toolCallId),
                  !.blockTypes = MapSet(@, index, content_block.type),
                  !.accumulatedText = MapSet(@, <<"thinking", index>>, initialThinking)]
    IN [ad |-> ad1,
        chunk |-> Some(Chunk(ad1, ToolCallStart(toolCallId, "thinking",
                        ThoughtsOpen \o escapeJsonString(initialThinking)), Null, FALSE))]

\* the mutant: one current thinking block per message, the first one open
handleThinkingDeltaCurrentBlock(ad, event) ==
    LET index == IF ad.currentThinkingBlocks = {} THEN event.index
                 ELSE CHOOSE i \in ad.currentThinkingBlocks :
                          \A j \in ad.currentThinkingBlocks : i <= j
        delta == event.delta
    IN IF delta.type # "thinking_delta" \/ "thinking" \notin DOMAIN delta
          \/ delta.thinking = <<>>
       THEN [ad |-> ad, chunk |-> None]
       ELSE LET toolCallId == MapGet(ad.toolCallIds, index, <<"call_thinking", index>>)
                currentThinking == MapGet(ad.accumulatedText, <<"thinking", index>>, <<>>)
                ad1 == [ad EXCEPT !.accumulatedText =
                          MapSet(@, <<"thinking", index>>, currentThinking \o delta.thinking)]
            IN [ad |-> ad1,
                chunk |-> Some(Chunk(ad1, ToolCallDelta(toolCallId,
                                escapeJsonString(delta.thinking)), Null, FALSE))]

handleThinkingDelta(ad, event) ==
    LET index == event.index
        delta == event.delta
    IN IF delta.type # "thinking_delta" \/ "thinking" \notin DOMAIN delta
          \/ delta.thinking = <<>>
       THEN [ad |-> ad, chunk |-> None]
       ELSE LET toolCallId == MapGet(ad.toolCallIds, index, <<"call_thinking", index>>)
                currentThinking == MapGet(ad.accumulatedText, <<"thinking", index>>, <<>>)
                ad1 == [ad EXCEPT !.accumulatedText =
                          MapSet(@, <<"thinking", index>>, currentThinking \o delta.thinking)]
            IN [ad |-> ad1,
                chunk |-> Some(Chunk(ad1, ToolCallDelta(toolCallId,
                                escapeJsonString(delta.thinking)), Null, FALSE))]

handleThinkingBlockStop(ad, event) ==
    LET index == event.index
        toolCallId == MapGet(ad.toolCallIds, index, <<"call_thinking", index>>)
    IN [ad |-> ad,
        chunk |-> Some(Chunk(ad, ToolCallDelta(toolCallId, ThinkingClose), Null, FALSE))]

\* JSON.stringify of the small input objects the model draws
JsonStringify(input) ==
    <<"{">> \o Flatten([i \in 1..Len(input) |->
                 (IF i > 1 THEN <<",">> ELSE <<>>)
                 \o <<DQ, input[i].key, DQ, ":", input[i].value>>]) \o <<"}">>

\* the mutant: input that is present at the start is sent as the first fragment
handleToolUseBlockStartSendsInput(ad, event) ==
    LET index == event.index
        content_block == event.content_block
        toolCallId == IF "id" \in DOMAIN content_block
                      THEN content_block.id ELSE <<"tool_call", index>>
        toolName == IF "name" \in DOMAIN content_block THEN content_block.name ELSE ""
        hasInput == "input" \in DOMAIN content_block /\ Len(content_block.input) > 0
        ad1 == [ad EXCEPT
                  !.toolCallIds = MapSet(@, index, toolCallId),
                  !.blockTypes = MapSet(@, index, content_block.type),
                  !.toolInputBuffers = MapSet(@, index, <<>>),
                  !.accumulatedText =
                      IF hasInput
                      THEN MapSet(@, <<"tool_input", index>>, JsonStringify(content_block.input))
                      ELSE @]
    IN [ad |-> ad1,
        chunk |-> Some(Chunk(ad1, ToolCallStart(toolCallId, toolName,
                        IF hasInput THEN JsonStringify(content_block.input) ELSE ToolOpen),
                        Null, FALSE))]

handleToolUseBlockStart(ad, event) ==
    LET index == event.index
        content_block == event.content_block
        toolCallId == IF "id" \in DOMAIN content_block
                      THEN content_block.id ELSE <<"tool_call", index>>
        toolName == IF "name" \in DOMAIN content_block THEN content_block.name ELSE ""
        hasInput == "input" \in DOMAIN content_block /\ Len(content_block.input) > 0
        ad1 == [ad EXCEPT
                  !.toolCallIds = MapSet(@, index, toolCallId),
                  !.blockTypes = MapSet(@, index, content_block.type),
                  !.toolInputBuffers = MapSet(@, index, <<>>),
                  !.accumulatedText =
                      IF hasInput
                      THEN MapSet(@, <<"tool_input", index>>, JsonStringify(content_block.input))
                      ELSE @]
    IN [ad |-> ad1,
        chunk |-> Some(Chunk(ad1, ToolCallStart(toolCallId, toolName, ToolOpen), Null, FALSE))]

\* the mutant: a fragment for a block that was never started is dropped
handleInputJsonDeltaRequiresStart(ad, event) ==
    LET index == event.index
        delta == event.delta
    IN IF delta.type # "input_json_delta" \/ "partial_json" \notin DOMAIN delta
          \/ delta.partial_json = <<>> \/ index \notin DOMAIN ad.toolCallIds
       THEN [ad |-> ad, chunk |-> None]
       ELSE LET toolCallId == MapGet(ad.toolCallIds, index, <<"tool_call", index>>)
                currentBuffer == MapGet(ad.toolInputBuffers, index, <<>>)
                newBuffer == currentBuffer \o delta.partial_json
                ad1 == [ad EXCEPT !.toolInputBuffers = MapSet(@, index, newBuffer)]
            IN [ad |-> ad1,
                chunk |-> Some(Chunk(ad1, ToolCallDelta(toolCallId, delta.partial_json),
                                     Null, FALSE))]

handleInputJsonDelta(ad, event) ==
    LET index == event.index
        delta == event.delta
    IN IF delta.type # "input_json_delta" \/ "partial_json" \notin DOMAIN delta
          \/ delta.partial_json = <<>>
       THEN [ad |-> ad, chunk |-> None]
       ELSE LET toolCallId == MapGet(ad.toolCallIds, index, <<"tool_call", index>>)
                currentBuffer == MapGet(ad.toolInputBuffers, index, <<>>)
                newBuffer == currentBuffer \o delta.partial_json
                ad1 == [ad EXCEPT !.toolInputBuffers = MapSet(@, index, newBuffer)]
            IN [ad |-> ad1,
                chunk |-> Some(Chunk(ad1, ToolCallDelta(toolCallId, delta.partial_json),
                                     Null, FALSE))]

handleToolUseBlockStop(ad, event) ==
    LET index == event.index
        toolCallId == MapGet(ad.toolCallIds, index, <<"tool_call", index>>)
    IN [ad |-> ad,
        chunk |-> Some(Chunk(ad, ToolCallDelta(toolCallId, ToolClose), Null, FALSE))]

\* reset() runs before event.message is read, so a message_start without
\* a message leaves the adapter reset when the TypeError is thrown
handleMessageStart(ad, event) ==
    LET ad0 == reset(ad)
    IN IF "message" \notin DOMAIN event
       THEN [ad |-> ad0, chunk |-> None, thrown |-> Some("TypeError")]
       ELSE LET ad1 == [ad0 EXCEPT !.messageId = event.message.id,
                                   !.model = mapModel(event.message.model)]
            IN [ad |-> ad1,
                chunk |-> Some(Chunk(ad1, [role |-> "assistant", content |-> <<>>],
                                     Null, FALSE)),
                thrown |-> None]

handleContentBlockStart(ad, event) ==
    LET index == event.index
        content_block == event.content_block
        ad1 == [ad EXCEPT !.blockTypes = MapSet(@, index, content_block.type)]
        text == IF "text" \in DOMAIN content_block THEN content_block.text ELSE <<>>
    IN IF content_block.type = "text"
       THEN LET ad2 == [ad1 EXCEPT !.accumulatedText = MapSet(@, <<"text", index>>, text)]
            IN [ad |-> ad2,
                chunk |-> IF text # <<>>
                          THEN Some(Chunk(ad2, [content |-> text], Null, FALSE))
                          ELSE None]
       ELSE [ad |-> ad1, chunk |-> None]

\* the mutant: the chunk carries the text accumulated so far, not the delta
handleContentBlockDeltaAccumulated(ad, event) ==
    LET index == event.index
        delta == event.delta
    IN IF delta.type # "text_delta" \/ "text" \notin DOMAIN delta \/ delta.text = <<>>
       THEN [ad |-> ad, chunk |-> None]
       ELSE LET currentText == MapGet(ad.accumulatedText, <<"text", index>>, <<>>)
                ad1 == [ad EXCEPT !.accumulatedText =
                          MapSet(@, <<"text", index>>, currentText \o delta.text)]
            IN [ad |-> ad1,
                chunk |-> Some(Chunk(ad1, [content |-> currentText \o delta.text],
                                     Null, FALSE))]

handleContentBlockDelta(ad, event) ==
    LET index == event.index
        delta == event.delta
    IN IF delta.type # "text_delta" \/ "text" \notin DOMAIN delta \/ delta.text = <<>>
       THEN [ad |-> ad, chunk |-> None]
       ELSE LET currentText == MapGet(ad.accumulatedText, <<"text", index>>, <<>>)
                ad1 == [ad EXCEPT !.accumulatedText =
                          MapSet(@, <<"text", index>>, currentText \o delta.text)]
            IN [ad |-> ad1,
                chunk |-> Some(Chunk(ad1, [content |-> delta.text], Null, FALSE))]

handleContentBlockStop(ad, event) ==
    [ad |-> [ad EXCEPT !.finishedBlocks = @ \cup {event.index}], chunk |-> None]

\* the mutant: the stop reason is announced at once in a chunk of its own,
\* and the open thinking blocks are taken as closed
handleMessageDeltaAnnounces(ad, event) ==
    IF "delta" \notin DOMAIN event
    THEN [ad |-> ad, chunk |-> None, thrown |-> Some("TypeError")]
    ELSE LET ad1 == [ad EXCEPT
                       !.stopReason = event.delta.stop_reason,
                       !.currentThinkingBlocks = {},
                       !.usageInfo = IF "usage" \in DOMAIN event
                                     THEN Some([prompt_tokens |-> 0,
                                                completion_tokens |-> event.usage.output_tokens,
                                                total_tokens |-> event.usage.output_tokens])
                                     ELSE @]
         IN [ad |-> ad1,
             chunk |-> Some(Chunk(ad1, EmptyObject, mapStopReason(ad1.stopReason), TRUE)),
             thrown |-> None]

\* event.delta.stop_reason is read first: a message_delta without delta throws
handleMessageDelta(ad, event) ==
    IF "delta" \notin DOMAIN event
    THEN [ad |-> ad, chunk |-> None, thrown |-> Some("TypeError")]
    ELSE [ad |-> [ad EXCEPT
                    !.stopReason = event.delta.stop_reason,
                    !.usageInfo = IF "usage" \in DOMAIN event
                                  THEN Some([prompt_tokens |-> 0,
                                             completion_tokens |-> event.usage.output_tokens,
                                             total_tokens |-> event.usage.output_tokens])
                                  ELSE @],
          chunk |-> None, thrown |-> None]

\* the chunks that the loop over the open blocks builds; handleMessageStop
\* drops the value of each call
SynthesizedCloses(ad) ==
    [kind \in {"thinking", "tool_use"} |->
        IF kind = "thinking"
        THEN {handleThinkingBlockStop(ad, [type |-> "content_block_stop", index |-> i]).chunk[1]
                 : i \in ad.currentThinkingBlocks}
        ELSE {handleToolUseBlockStop(ad, [type |-> "content_block_stop", index |-> i]).chunk[1]
                 : i \in ad.currentToolUseBlocks}]

\* the mutant: message_stop produces no chunk
handleMessageStopSilent(ad, event) ==
    [ad |-> ad, chunk |-> None]

handleMessageStop(ad, event) ==
    LET finishReason == mapStopReason(ad.stopReason)
        hasUnfinishedThinkingBlocks == Cardinality(ad.currentThinkingBlocks) > 0
        hasUnfinishedToolUseBlocks == Cardinality(ad.currentToolUseBlocks) > 0
        dropped == IF hasUnfinishedThinkingBlocks \/ hasUnfinishedToolUseBlocks
                   THEN SynthesizedCloses(ad) ELSE [kind \in {} |-> {}]
        finalFinishReason ==
            IF hasUnfinishedToolUseBlocks THEN "tool_calls"
            ELSE IF ad.stopReason = "tool_use" THEN "tool_calls" ELSE finishReason
    IN [ad |-> ad,
        chunk |-> Some(Chunk(ad, EmptyObject, finalFinishReason, TRUE))]

\* the switch of processEvent: the adapter after the call, the chunk the
\* handler produced, and the error thrown, if any
Dispatch(ad, event) ==
    CASE event.type = "message_start" -> handleMessageStart(ad, event)
      [] event.type = "content_block_start" ->
            IF "content_block" \notin DOMAIN event
            THEN [ad |-> ad, chunk |-> None, thrown |-> Some("TypeError")]
            ELSE IF event.content_block.type = "thinking"
            THEN LET r == handleThinkingBlockStart(ad, event)
                 IN [ad |-> [r.ad EXCEPT !.currentThinkingBlocks = @ \cup {event.index}],
                     chunk |-> r.chunk, thrown |-> None]
            ELSE IF event.content_block.type = "tool_use"
            THEN LET r == handleToolUseBlockStart(ad, event)
                 IN [ad |-> [r.ad EXCEPT !.currentToolUseBlocks = @ \cup {event.index}],
                     chunk |-> r.chunk, thrown |-> None]
            ELSE LET r == handleContentBlockStart(ad, event)
                 IN [ad |-> r.ad, chunk |-> r.chunk, thrown |-> None]
      [] event.type = "content_block_delta" ->
            IF "delta" \notin DOMAIN event
            THEN [ad |-> ad, chunk |-> None, thrown |-> Some("TypeError")]
            ELSE LET r == CASE event.delta.type = "thinking_delta" ->
                                  handleThinkingDelta(ad, event)
                            [] event.delta.type = "text_delta" ->
                                  handleContentBlockDelta(ad, event)
                            [] event.delta.type = "input_json_delta" ->
                                  handleInputJsonDelta(ad, event)
                            [] OTHER -> [ad |-> ad, chunk |-> None]
                 IN [ad |-> r.ad, chunk |-> r.chunk, thrown |-> None]
      [] event.type = "content_block_stop" ->
            LET blockType == MapGet(ad.blockTypes, event.index, Null)
                r == CASE blockType = "thinking" ->
                            LET h == handleThinkingBlockStop(ad, event)
                            IN [ad |-> [h.ad EXCEPT !.currentThinkingBlocks = @ \ {event.index}],
                                chunk |-> h.chunk]
                       [] blockType = "tool_use" ->
                            LET h == handleToolUseBlockStop(ad, event)
                            IN [ad |-> [h.ad EXCEPT !.currentToolUseBlocks = @ \ {event.index}],
                                chunk |-> h.chunk]
                       [] OTHER -> handleContentBlockStop(ad, event)
            IN [ad |-> [r.ad EXCEPT !.finishedBlocks = @ \cup {event.index}],
                chunk |-> r.chunk, thrown |-> None]
      [] event.type = "message_delta" -> handleMessageDelta(ad, event)
      [] event.type = "message_stop" ->
            LET r == handleMessageStop(ad, event)
            IN [ad |-> r.ad, chunk |-> r.chunk, thrown |-> None]
      [] event.type = "error" ->
            [ad |-> ad, chunk |-> None, thrown |-> Some("Claude API error")]
      [] OTHER -> [ad |-> ad, chunk |-> None, thrown |-> None]

\* processEvent: a thrown error is rethrown before the emit; otherwise the
\* chunk, if any, is emitted once on 'chunk' and returned
processEvent(ad, event) ==
    LET r == Dispatch(ad, event)
    IN IF r.thrown # None
       THEN [adapter |-> r.ad, emitted |-> <<>>, returned |-> None, thrown |-> r.thrown]
       ELSE [adapter |-> r.ad, emitted |-> r.chunk, returned |-> r.chunk, thrown |-> None]

----------------------------------------------------------------------------
(* Events a worker can relay *)

MessageStartEvent == [type |-> "message_start", message |-> [id |-> "msg_1", model |-> "m"]]
MessageStopEvent == [type |-> "message_stop"]
ErrorEvent == [type |-> "error", content |-> [type |-> "error", message |-> "overloaded"]]

StopReasons == {"end_turn", "max_tokens", "stop_sequence", "tool_use", "refusal", Null}

MessageDeltaEvents(reasons) ==
    {[type |-> "message_delta", delta |-> [stop_reason |-> sr],
      usage |-> [output_tokens |-> 7]] : sr \in reasons}

TextStart(i, text) ==
    [type |-> "content_block_start", index |-> i,
     content_block |-> [type |-> "text", text |-> text]]
ThinkingStart(i, thinking) ==
    [type |-> "content_block_start", index |-> i,
     content_block |-> [type |-> "thinking", thinking |-> thinking]]
ToolUseStart(i, input) ==
    [type |-> "content_block_start", index |-> i,
     content_block |-> [type |-> "tool_use", id |-> <<"toolu", i>>, name |-> "get_weather",
                        input |-> input]]
TextDelta(i, text) ==
    [type |-> "content_block_delta", index |-> i,
     delta |-> [type |-> "text_delta", text |-> text]]
ThinkingDelta(i, thinking) ==
    [type |-> "content_block_delta", index |-> i,
     delta |-> [type |-> "thinking_delta", thinking |-> thinking]]
InputJsonDelta(i, partial_json) ==
    [type |-> "content_block_delta", index |-> i,
     delta |-> [type |-> "input_json_delta", partial_json |-> partial_json]]
BlockStop(i) == [type |-> "content_block_stop", index |-> i]

Hi == <<"H", "i">>

----------------------------------------------------------------------------
(* The adapter driven directly: one processEvent call per step.  The     *)
(* server drops the adapter at message_stop, so no call follows it; the  *)
(* bound counts the events before message_stop.                          *)

NoCall == [emitted |-> <<>>, returned |-> None, thrown |-> None]

ClientIds == {"tab1", "tab2"}

Init ==
    /\ adapter = NewAdapter
    /\ evts = <<>>
    /\ out = <<>>
    /\ lastCall = NoCall
    /\ phase = "open"
    /\ clients = <<>>
    /\ conversationToClient = EmptyMap
    /\ wsData = [c \in ClientIds |-> [adapter |-> None, openaiRequestId |-> None]]
    /\ listeners = <<>>
    /\ requests = <<>>
    /\ sent = <<>>
    /\ nFrames = 0
    /\ now = 0
    /\ lastSweep = <<>>
    /\ claudeMessage = <<>>
    /\ completion = <<>>
    /\ sockets = [conns |-> <<>>, owner |-> EmptyMap]

\* adapter.processEvent(event) as the server calls it
Process(event) ==
    LET r == processEvent(adapter, event)
    IN /\ adapter' = r.adapter
       /\ evts' = Append(evts, event)
       /\ out' = IF r.returned = None THEN out
                 ELSE Append(out, [ev |-> Len(evts) + 1, chunk |-> r.returned[1]])
       /\ lastCall' = [emitted |-> r.emitted, returned |-> r.returned, thrown |-> r.thrown]
       /\ phase' = IF event.type = "message_stop" THEN "stopped" ELSE "open"
       /\ UNCHANGED <<serverVars, convertVars, sockets>>

CanProcess(max) == phase = "open" /\ Len(evts) < max

MessageStart == CanProcess(MaxEvents) /\ Process(MessageStartEvent)

ContentBlockStart ==
    /\ CanProcess(MaxEvents)
    /\ \E i \in Indices :
         \E e \in {TextStart(i, <<>>), ThinkingStart(i, <<>>), ToolUseStart(i, <<>>)} :
            Process(e)

ContentBlockDelta ==
    /\ CanProcess(MaxEvents)
    /\ \E i \in Indices :
         \E e \in {TextDelta(i, Hi), ThinkingDelta(i, <<"a">>), InputJsonDelta(i, <<"1">>)} :
            Process(e)

ContentBlockStop == CanProcess(MaxEvents) /\ \E i \in Indices : Process(BlockStop(i))

MessageDelta == CanProcess(MaxEvents) /\ \E e \in MessageDeltaEvents(StopReasons) : Process(e)

MessageStop == CanProcess(MaxEvents + 1) /\ Process(MessageStopEvent)

VendorError == CanProcess(MaxEvents) /\ Process(ErrorEvent)

NextAdapter ==
    \/ MessageStart
    \/ ContentBlockStart
    \/ ContentBlockDelta
    \/ ContentBlockStop
    \/ MessageDelta
    \/ MessageStop
    \/ VendorError

SpecAdapter == Init /\ [][NextAdapter]_vars

----------------------------------------------------------------------------
(* The adapter fed messages made of text blocks only *)

TextMessageStart == CanProcess(MaxTextEvents) /\ Process(MessageStartEvent)

TextBlockStart ==
    CanProcess(MaxTextEvents) /\ \E t \in {<<>>, Hi} : Process(TextStart(0, t))

TextBlockDelta ==
    CanProcess(MaxTextEvents) /\ \E t \in {<<>>, Hi} : Process(TextDelta(0, t))

TextBlockStop == CanProcess(MaxTextEvents) /\ Process(BlockStop(0))

TextMessageDelta ==
    /\ CanProcess(MaxTextEvents)
    /\ \E e \in MessageDeltaEvents({"end_turn", "max_tokens"}) : Process(e)

TextMessageStop == CanProcess(MaxTextEvents + 1) /\ Process(MessageStopEvent)

NextText ==
    \/ TextMessageStart
    \/ TextBlockStart
    \/ TextBlockDelta
    \/ TextBlockStop
    \/ TextMessageDelta
    \/ TextMessageStop

SpecText == Init /\ [][NextText]_vars

----------------------------------------------------------------------------
(* The adapter fed the events of one thinking block, with payloads over  *)
(* the characters escapeJsonString rewrites and some it leaves alone     *)

Abc == <<"a", "b", "c">>

ThinkingInitials == {<<>>, <<BS>>, <<DQ, "a">>}

ThinkingPayloads ==
    {<<>>, <<BS>>, <<DQ>>, <<NL>>, <<CR>>, <<TAB>>, <<"n">>, <<BS, "n">>, Abc}

ThinkingBlockStart ==
    CanProcess(MaxDeltas + 2) /\ \E t \in ThinkingInitials : Process(ThinkingStart(0, t))

ThinkingBlockDelta ==
    CanProcess(MaxDeltas + 2) /\ \E t \in ThinkingPayloads : Process(ThinkingDelta(0, t))

ThinkingBlockStop == CanProcess(MaxDeltas + 2) /\ Process(BlockStop(0))

NextThinking ==
    \/ ThinkingBlockStart
    \/ ThinkingBlockDelta
    \/ ThinkingBlockStop

SpecThinking == Init /\ [][NextThinking]_vars

----------------------------------------------------------------------------
(* The adapter fed a thinking block with summary deltas *)

ThinkingSummaryDelta(i, summary) ==
    [type |-> "content_block_delta", index |-> i,
     delta |-> [type |-> "thinking_summary_delta", summary |-> [summary |-> summary]]]

SummaryPayloads == {<<"s">>, <<DQ>>, Abc}

SummaryBlockStart ==
    CanProcess(MaxDeltas + 2) /\ \E t \in ThinkingInitials : Process(ThinkingStart(0, t))

SummaryBlockDelta ==
    CanProcess(MaxDeltas + 2) /\ \E t \in {<<"a">>} : Process(ThinkingDelta(0, t))

SummaryDelta ==
    CanProcess(MaxDeltas + 2) /\ \E t \in SummaryPayloads : Process(ThinkingSummaryDelta(0, t))

SummaryBlockStop == CanProcess(MaxDeltas + 2) /\ Process(BlockStop(0))

NextSummary ==
    \/ SummaryBlockStart
    \/ SummaryBlockDelta
    \/ SummaryDelta
    \/ SummaryBlockStop

SpecSummary == Init /\ [][NextSummary]_vars

----------------------------------------------------------------------------
(* The adapter fed the events of one tool_use block *)

SomeInput == <<[key |-> "k", value |-> "1"]>>

ToolUseStartNoInput(i) ==
    [type |-> "content_block_start", index |-> i,
     content_block |-> [type |-> "tool_use", id |-> <<"toolu", i>>, name |-> "get_weather"]]

ToolStarts == {ToolUseStartNoInput(0), ToolUseStart(0, <<>>), ToolUseStart(0, SomeInput)}

JsonFragments == {<<>>, <<DQ, "k", DQ, ":">>, <<"1">>, <<",">>}

ToolBlockStart == CanProcess(MaxDeltas + 2) /\ \E e \in ToolStarts : Process(e)

ToolBlockDelta ==
    CanProcess(MaxDeltas + 2) /\ \E f \in JsonFragments : Process(InputJsonDelta(0, f))

ToolBlockStop == CanProcess(MaxDeltas + 2) /\ Process(BlockStop(0))

NextTool ==
    \/ ToolBlockStart
    \/ ToolBlockDelta
    \/ ToolBlockStop

SpecTool == Init /\ [][NextTool]_vars

----------------------------------------------------------------------------
(* The server: src/server/index.ts, lines 1628-2286 *)

\* the part of the server state that bridge listeners read and write
Bridge == [listeners |-> listeners, requests |-> requests]

removeAllListeners(ls, topics) == SelectSeq(ls, LAMBDA l : l.topic \notin topics)

\* WritableStreamDefaultWriter: a write or close on a writer that is closed,
\* or whose readable side the HTTP caller has cancelled, is rejected
WriterWrite(w, frame) ==
    IF w.closed \/ w.cancelled THEN [w EXCEPT !.rejected = @ + 1]
    ELSE [w EXCEPT !.frames = Append(@, frame)]

WriterClose(w) ==
    IF w.closed \/ w.cancelled THEN [w EXCEPT !.rejected = @ + 1]
    ELSE [w EXCEPT !.closed = TRUE]

\* resolve() of the promise of createSynchronousResponse; requests[r].resolved
\* keeps every call, the HTTP response is the first
Resolve(req, response) == [req EXCEPT !.resolved = Append(@, response)]

ErrorResponse(status, message, type, code) ==
    [status |-> status, body |-> [error |-> [message |-> message, type |-> type, code |-> code]]]

\* createStreamingResponse: streamBridge.on(`chunk:${requestId}`)
streamChunkListener(b, r, chunk) ==
    [b EXCEPT !.requests[r].writer = WriterWrite(@, [frame |-> "data", chunk |-> chunk])]

\* createStreamingResponse: streamBridge.on('error')
streamErrorListener(b, r, error) ==
    [listeners |-> removeAllListeners(b.listeners, {<<"chunk", r>>, <<"complete", r>>}),
     requests |-> [b.requests EXCEPT ![r].writer =
                     WriterClose(WriterWrite(@, [frame |-> "error", message |-> error.message]))]]

\* the mutant: the writer is closed before the end marker is written
streamCompleteListenerClosesFirst(b, r) ==
    [listeners |-> removeAllListeners(b.listeners, {<<"chunk", r>>, <<"complete", r>>}),
     requests |-> [b.requests EXCEPT ![r].writer =
                     WriterWrite(WriterClose(@), [frame |-> "done"])]]

\* createStreamingResponse: streamBridge.on(`complete:${requestId}`)
\* the mutant: the end marker is written but the stream is left open
streamCompleteListenerLeavesOpen(b, r) ==
    [listeners |-> removeAllListeners(b.listeners, {<<"chunk", r>>, <<"complete", r>>}),
     requests |-> [b.requests EXCEPT ![r].writer = WriterWrite(@, [frame |-> "done"])]]

streamCompleteListener(b, r) ==
    [listeners |-> removeAllListeners(b.listeners, {<<"chunk", r>>, <<"complete", r>>}),
     requests |-> [b.requests EXCEPT ![r].writer =
                     WriterClose(WriterWrite(@, [frame |-> "done"]))]]

\* the mutant: the content buffer keeps only the newest text
syncChunkListenerKeepsLastContent(b, r, chunk) ==
    [b EXCEPT !.requests[r].chunks = Append(@, chunk),
              !.requests[r].fullContent =
                  IF "content" \in DOMAIN chunk.delta /\ chunk.delta.content # <<>>
                  THEN <<chunk.delta.content>> ELSE @]

\* the mutant: the newest chunk is put in front of the buffer
syncChunkListenerPrepends(b, r, chunk) ==
    [b EXCEPT !.requests[r].chunks = <<chunk>> \o @,
              !.requests[r].fullContent =
                  IF "content" \in DOMAIN chunk.delta /\ chunk.delta.content # <<>>
                  THEN Append(@, chunk.delta.content) ELSE @]

\* createSynchronousResponse: streamBridge.on(`chunk:${requestId}`)
syncChunkListener(b, r, chunk) ==
    [b EXCEPT !.requests[r].chunks = Append(@, chunk),
              !.requests[r].fullContent =
                  IF "content" \in DOMAIN chunk.delta /\ chunk.delta.content # <<>>
                  THEN Append(@, chunk.delta.content) ELSE @]

AllTopics(r) == {<<"chunk", r>>, <<"complete", r>>, <<"error", r>>}

\* the mutant: the error handler answers but leaves the listeners registered
syncErrorListenerKeepsListeners(b, r, error) ==
    [listeners |-> b.listeners,
     requests |-> [b.requests EXCEPT ![r] =
                     Resolve(@, ErrorResponse(500, error.message, error.type, error.code))]]

\* createSynchronousResponse: streamBridge.on(`error:${requestId}`)
syncErrorListener(b, r, error) ==
    [listeners |-> removeAllListeners(b.listeners, AllTopics(r)),
     requests |-> [b.requests EXCEPT ![r] =
                     Resolve(@, ErrorResponse(500, error.message, error.type, error.code))]]

ZeroUsage == [prompt_tokens |-> 0, completion_tokens |-> 0, total_tokens |-> 0]

\* createSynchronousResponse: streamBridge.on(`complete:${requestId}`)
syncCompleteListener(b, r) ==
    LET req == b.requests[r]
        chunks == req.chunks
        withUsage == {k \in 1..Len(chunks) : chunks[k].usage # None}
        response ==
            IF Len(chunks) = 0
            THEN ErrorResponse(500, "No response chunks received before completion",
                               "server_error", "error_processing_response")
            ELSE [status |-> 200,
                  body |-> [id |-> r,
                            object |-> "chat.completion",
                            model |-> chunks[1].model,
                            choices |-> <<[index |-> 0,
                                           message |-> [role |-> "assistant",
                                                        content |-> Flatten(req.fullContent)],
                                           finish_reason |-> "stop"]>>,
                            usage |-> IF withUsage = {} THEN ZeroUsage
                                      ELSE chunks[CHOOSE k \in withUsage :
                                                     \A j \in withUsage : k <= j].usage[1]]]
    IN [listeners |-> removeAllListeners(b.listeners, AllTopics(r)),
        requests |-> [b.requests EXCEPT ![r] = Resolve(@, response)]]

Invoke(b, l, payload) ==
    CASE l.handler = "streamChunk" -> streamChunkListener(b, l.owner, payload)
      [] l.handler = "streamError" -> streamErrorListener(b, l.owner, payload)
      [] l.handler = "streamComplete" -> streamCompleteListener(b, l.owner)
      [] l.handler = "syncChunk" -> syncChunkListener(b, l.owner, payload)
      [] l.handler = "syncError" -> syncErrorListener(b, l.owner, payload)
      [] l.handler = "syncComplete" -> syncCompleteListener(b, l.owner)

RECURSIVE InvokeAll(_, _, _)
InvokeAll(b, ls, payload) ==
    IF ls = <<>> THEN b ELSE InvokeAll(Invoke(b, Head(ls), payload), Tail(ls), payload)

\* EventEmitter.emit: the listeners registered for the topic when emit is
\* called run synchronously, in registration order
Emit(b, topic, payload) ==
    InvokeAll(b, SelectSeq(b.listeners, LAMBDA l : l.topic = topic), payload)


\* the mutant: the catch block emits on the topic 'error'
processAdapterEventTryGlobalError(b, wsd, c, rid, r) ==
    LET wsd1 == [wsd EXCEPT ![c].adapter = Some(r.adapter)]
        call == [emitted |-> r.emitted, returned |-> r.returned, thrown |-> r.thrown]
    IN IF r.thrown = None
       THEN IF r.returned # None
            THEN [bridge |-> Emit([b EXCEPT !.requests[rid].produced =
                                      Append(@, [ev |-> nFrames + 1, chunk |-> r.returned[1]])],
                                  <<"chunk", rid>>, r.returned[1]),
                  wsData |-> wsd1, thrown |-> FALSE, call |-> call]
            ELSE [bridge |-> b, wsData |-> wsd1, thrown |-> FALSE, call |-> call]
       ELSE [bridge |-> Emit([b EXCEPT !.requests[rid].faults = @ + 1],
                             <<"error">>,
                             [message |-> r.thrown[1],
                              type |-> "adapter_internal_error",
                              code |-> "ADAPTER_INTERNAL_EXCEPTION"]),
             wsData |-> wsd1, thrown |-> TRUE, call |-> call]

\* processAdapterEvent, the try block and its catch, given the result r of
\* adapter.processEvent for the request rid bound to the tab c.  produced
\* and faults of the request are history: what the adapter returned for it
\* and how often it threw.
processAdapterEventTry(b, wsd, c, rid, r) ==
    LET wsd1 == [wsd EXCEPT ![c].adapter = Some(r.adapter)]
        call == [emitted |-> r.emitted, returned |-> r.returned, thrown |-> r.thrown]
    IN IF r.thrown = None
       THEN IF r.returned # None
            THEN [bridge |-> Emit([b EXCEPT !.requests[rid].produced =
                                      Append(@, [ev |-> nFrames + 1, chunk |-> r.returned[1]])],
                                  <<"chunk", rid>>, r.returned[1]),
                  wsData |-> wsd1, thrown |-> FALSE, call |-> call]
            ELSE [bridge |-> b, wsData |-> wsd1, thrown |-> FALSE, call |-> call]
       ELSE [bridge |-> Emit([b EXCEPT !.requests[rid].faults = @ + 1],
                             <<"error", rid>>,
                             [message |-> r.thrown[1],
                              type |-> "adapter_internal_error",
                              code |-> "ADAPTER_INTERNAL_EXCEPTION"]),
             wsData |-> wsd1, thrown |-> TRUE, call |-> call]

\* processAdapterEvent(ws, message) for the tab c: the bridge and ws.data
\* after the call, whether the error was rethrown, and the adapter call made.
processAdapterEvent(b, wsd, c, message) ==
    IF wsd[c].openaiRequestId = None \/ wsd[c].adapter = None
    THEN [bridge |-> b, wsData |-> wsd, thrown |-> FALSE, call |-> NoCall]
    ELSE processAdapterEventTry(b, wsd, c, wsd[c].openaiRequestId[1],
                                processEvent(wsd[c].adapter[1], message))

ClientPositions(id) == {k \in 1..Len(clients) : clients[k].clientId = id}
HasClient(id) == ClientPositions(id) # {}

\* the mutant: strategy 2 takes the last /new tab, not the first
findBestClientForRequestLastNewTab(authId) ==
    LET mapped == IF authId # Null /\ authId \in DOMAIN conversationToClient
                  THEN conversationToClient[authId] ELSE Null
        newTabs == SelectSeq(clients, LAMBDA cl : cl.isNewTab)
    IN IF mapped # Null /\ HasClient(mapped) THEN Some(mapped)
       ELSE IF Len(newTabs) > 0 THEN Some(newTabs[Len(newTabs)].clientId)
       ELSE IF Len(clients) > 0 THEN Some(clients[Len(clients)].clientId)
       ELSE None

\* the mutant: with no client registered, a tab id is returned all the same
findBestClientForRequestUnregistered(authId) ==
    LET mapped == IF authId # Null /\ authId \in DOMAIN conversationToClient
                  THEN conversationToClient[authId] ELSE Null
        newTabs == SelectSeq(clients, LAMBDA cl : cl.isNewTab)
    IN IF mapped # Null /\ HasClient(mapped) THEN Some(mapped)
       ELSE IF Len(newTabs) > 0 THEN Some(newTabs[1].clientId)
       ELSE IF Len(clients) > 0 THEN Some(clients[Len(clients)].clientId)
       ELSE Some("tab1")

\* the mutant: a /new tab is preferred to the tab of the conversation
findBestClientForRequestPrefersNewTab(authId) ==
    LET mapped == IF authId # Null /\ authId \in DOMAIN conversationToClient
                  THEN conversationToClient[authId] ELSE Null
        newTabs == SelectSeq(clients, LAMBDA cl : cl.isNewTab)
    IN IF Len(newTabs) > 0 THEN Some(newTabs[1].clientId)
       ELSE IF mapped # Null /\ HasClient(mapped) THEN Some(mapped)
       ELSE IF Len(clients) > 0 THEN Some(clients[Len(clients)].clientId)
       ELSE None

\* findBestClientForRequest: the clientId chosen, if any
findBestClientForRequest(authId) ==
    LET mapped == IF authId # Null /\ authId \in DOMAIN conversationToClient
                  THEN conversationToClient[authId] ELSE Null
        newTabs == SelectSeq(clients, LAMBDA cl : cl.isNewTab)
    IN IF mapped # Null /\ HasClient(mapped) THEN Some(mapped)
       ELSE IF Len(newTabs) > 0 THEN Some(newTabs[1].clientId)
       ELSE IF Len(clients) > 0 THEN Some(clients[Len(clients)].clientId)
       ELSE None

\* websocket.open: clients.set(clientId, client) with a fresh connection.
\* changed is history: whether the tab was logged as "changed from /new to
\* conversation" during this connection.
Open(c) ==
    /\ ~HasClient(c)
    /\ clients' = Append(clients, [clientId |-> c, conversations |-> {}, isNewTab |-> FALSE,
                                   lastHeartbeat |-> now, changed |-> FALSE])
    /\ wsData' = [wsData EXCEPT ![c] = [adapter |-> None, openaiRequestId |-> None]]
    /\ lastSweep' = None
    /\ UNCHANGED <<conversationToClient, listeners, requests, sent, nFrames, now>>
    /\ UNCHANGED <<adapterVars, lastCall>>

\* lost is history: whether the worker's connection was dropped ("close",
\* "sweep") while the request was still bound to it
NewRequest(mode, client) ==
    [mode |-> mode, client |-> client,
     writer |-> [frames |-> <<>>, closed |-> FALSE, cancelled |-> FALSE, rejected |-> 0],
     chunks |-> <<>>, fullContent |-> <<>>, resolved |-> <<>>,
     produced |-> <<>>, faults |-> 0, lost |-> "no"]

\* the listeners createStreamingResponse registers for request r
StreamingListeners(r) ==
    << [topic |-> <<"chunk", r>>, owner |-> r, handler |-> "streamChunk"],
       [topic |-> <<"error">>, owner |-> r, handler |-> "streamError"],
       [topic |-> <<"complete", r>>, owner |-> r, handler |-> "streamComplete"] >>

\* the listeners createSynchronousResponse registers for request r
SynchronousListeners(r) ==
    << [topic |-> <<"chunk", r>>, owner |-> r, handler |-> "syncChunk"],
       [topic |-> <<"error", r>>, owner |-> r, handler |-> "syncError"],
       [topic |-> <<"complete", r>>, owner |-> r, handler |-> "syncComplete"] >>

\* handleCompletionsRequest with a well-formed body: 503 without a client,
\* else bind a new adapter and request id to the chosen tab, register the
\* listeners and send new_chat_request.  A streaming request is answered
\* at once with the readable side of the stream.
HandleCompletionsRequest(stream, authId) ==
    LET r == Len(requests) + 1
        chosen == findBestClientForRequest(authId)
    IN /\ Len(requests) < MaxRequests
       /\ IF chosen = None
          THEN /\ requests' = Append(requests,
                      Resolve(NewRequest("rejected", Null),
                              [status |-> 503, body |-> [error |-> "No clients connected"]]))
               /\ UNCHANGED <<wsData, listeners, sent>>
          ELSE LET c == chosen[1]
               IN /\ wsData' = [wsData EXCEPT ![c] = [adapter |-> Some(NewAdapter),
                                                       openaiRequestId |-> Some(r)]]
                  /\ listeners' = listeners \o
                        (IF stream THEN StreamingListeners(r) ELSE SynchronousListeners(r))
                  /\ requests' = Append(requests,
                        IF stream
                        THEN Resolve(NewRequest("stream", c), [status |-> 200, body |-> "stream"])
                        ELSE NewRequest("sync", c))
                  /\ sent' = Append(sent, [to |-> c, type |-> "new_chat_request"])
       /\ lastSweep' = None
       /\ UNCHANGED <<clients, conversationToClient, nFrames, now>>
       /\ UNCHANGED <<adapterVars, lastCall>>

Completions == \E stream \in BOOLEAN : \E authId \in {Null, "conv1"} :
                  HandleCompletionsRequest(stream, authId)

otherEventTypes ==
    {"content_block_start", "content_block_delta", "content_block_stop", "message_delta",
     "message_limit", "conversations_list", "conversation_detail", "conversation_latest",
     "conversation_title", "chat_message_warning", "new_conversation", "new_chat_request"}

\* websocket.message: client.lastHeartbeat = Date.now() for any frame
Touch(cl, c) ==
    [k \in DOMAIN cl |-> IF cl[k].clientId = c THEN [cl[k] EXCEPT !.lastHeartbeat = now]
                         ELSE cl[k]]

\* client.conversations.add(convId) for the tab c
AddConversation(cl, c, convId) ==
    [k \in DOMAIN cl |-> IF cl[k].clientId = c
                         THEN [cl[k] EXCEPT !.conversations = @ \cup {convId}]
                         ELSE cl[k]]

\* client.isNewTab = v for the tab c
SetNewTab(cl, c, v) ==
    [k \in DOMAIN cl |-> IF cl[k].clientId = c THEN [cl[k] EXCEPT !.isNewTab = v] ELSE cl[k]]

\* if (client.isNewTab) { client.isNewTab = false; log(...) } for the tab c
ClearNewTab(cl, c) ==
    [k \in DOMAIN cl |-> IF cl[k].clientId = c /\ cl[k].isNewTab
                         THEN [cl[k] EXCEPT !.isNewTab = FALSE, !.changed = TRUE]
                         ELSE cl[k]]

\* data.content?.conversationId of worker_update_active_conversation
ConversationIdOf(data) ==
    IF "content" \in DOMAIN data /\ "conversationId" \in DOMAIN data.content
    THEN data.content.conversationId ELSE Null

\* data.content?.isWorker || !!data.is_new_tab of worker_register
IsNewTabOf(data) ==
    \/ "content" \in DOMAIN data /\ "isWorker" \in DOMAIN data.content /\ data.content.isWorker
    \/ "is_new_tab" \in DOMAIN data /\ data.is_new_tab

\* websocket.message for a frame of tab c that parses, and the river handler
\* registered for its type in websocket.open.  The heartbeat is updated
\* before the handler runs.  An error thrown by processAdapterEvent ends
\* the handler where it is; a type without a handler ('error') is not
\* dispatched.
WorkerFrame(c, data) ==
    /\ HasClient(c)
    /\ nFrames < MaxFrames
    /\ nFrames' = nFrames + 1
    /\ \E p \in {processAdapterEvent(Bridge, wsData, c, data)} :
          CASE data.type = "message_start" ->
                 /\ listeners' = p.bridge.listeners
                 /\ requests' = p.bridge.requests
                 /\ wsData' = p.wsData
                 /\ lastCall' = p.call
                 /\ UNCHANGED sent
                 /\ IF ~p.thrown /\ "conversation_uuid" \in DOMAIN data
                    THEN /\ clients' = AddConversation(Touch(clients, c), c,
                                                       data.conversation_uuid)
                         /\ conversationToClient' =
                               MapSet(conversationToClient, data.conversation_uuid, c)
                    ELSE /\ clients' = Touch(clients, c)
                         /\ UNCHANGED conversationToClient
            [] data.type = "message_stop" ->
                 /\ \E b \in {IF ~p.thrown /\ p.wsData[c].openaiRequestId # None
                               THEN Emit(p.bridge,
                                         <<"complete", p.wsData[c].openaiRequestId[1]>>, Null)
                               ELSE p.bridge} :
                       /\ listeners' = b.listeners
                       /\ requests' = b.requests
                 /\ wsData' = IF ~p.thrown /\ p.wsData[c].openaiRequestId # None
                              THEN [p.wsData EXCEPT ![c] = [adapter |-> None,
                                                            openaiRequestId |-> None]]
                              ELSE p.wsData
                 /\ lastCall' = p.call
                 /\ clients' = Touch(clients, c)
                 /\ UNCHANGED <<conversationToClient, sent>>
            [] data.type \in otherEventTypes ->
                 /\ listeners' = p.bridge.listeners
                 /\ requests' = p.bridge.requests
                 /\ wsData' = p.wsData
                 /\ lastCall' = p.call
                 /\ clients' = Touch(clients, c)
                 /\ UNCHANGED <<conversationToClient, sent>>
            [] data.type = "ping" ->
                 /\ sent' = Append(sent, [to |-> c, type |-> "ping"])
                 /\ clients' = Touch(clients, c)
                 /\ UNCHANGED <<listeners, requests, wsData, lastCall, conversationToClient>>
            [] data.type = "worker_register" ->
                 /\ clients' = SetNewTab(Touch(clients, c), c, IsNewTabOf(data))
                 /\ UNCHANGED <<listeners, requests, wsData, lastCall, conversationToClient,
                                sent>>
            [] data.type = "worker_update_active_conversation" ->
                 /\ IF ConversationIdOf(data) # Null
                    THEN /\ clients' = AddConversation(ClearNewTab(Touch(clients, c), c),
                                                       c, ConversationIdOf(data))
                         /\ conversationToClient' =
                               MapSet(conversationToClient, ConversationIdOf(data), c)
                    ELSE /\ clients' = Touch(clients, c)
                         /\ UNCHANGED conversationToClient
                 /\ UNCHANGED <<listeners, requests, wsData, lastCall, sent>>
            [] OTHER ->
                 /\ clients' = Touch(clients, c)
                 /\ UNCHANGED <<listeners, requests, wsData, lastCall, conversationToClient,
                                sent>>
    /\ lastSweep' = None
    /\ UNCHANGED <<adapterVars, now>>

MessageStartConv ==
    [type |-> "message_start", message |-> [id |-> "msg_1", model |-> "m"],
     conversation_uuid |-> "conv1"]

\* a content_block_start that lacks content_block: processEvent throws on it
MalformedBlockStart == [type |-> "content_block_start", index |-> 0]

WorkerEvents ==
    {MessageStartConv, TextDelta(0, Hi), MessageStopEvent, MalformedBlockStart, ErrorEvent}

Frame == \E c \in ClientIds : \E data \in WorkerEvents : WorkerFrame(c, data)

Connect == \E c \in ClientIds : Open(c)

Next ==
    \/ Connect
    \/ Completions
    \/ Frame

Spec == Init /\ [][Next]_vars

----------------------------------------------------------------------------
(* The session registry: connect, disconnect, registration frames, the    *)
(* clock and the periodic sweep, with requests dispatched in between.     *)

\* TAB_TIMEOUT_MS = 30000, in ticks of the clock
TAB_TIMEOUT_MS == 1

\* the clock is followed until a heartbeat of time 0 has timed out: at
\* TAB_TIMEOUT_MS it is exactly at the stale time, one tick later it is older
MaxTime == TAB_TIMEOUT_MS + 1

MapDelete(m, k) == [x \in (DOMAIN m) \ {k} |-> m[x]]

\* the response sink of request r has had its terminal signal
Terminated(r) ==
    \/ requests[r].mode = "stream" /\ requests[r].writer.closed
    \/ requests[r].mode = "sync" /\ Len(requests[r].resolved) > 0

\* the mutant: every conversation the client touched loses its mapping
DeleteMappingsOfTouched(c2c, client) ==
    [x \in {conv \in DOMAIN c2c : conv \notin client.conversations} |-> c2c[x]]

\* client.conversations.forEach: delete the mappings that still point to the
\* client
DeleteMappings(c2c, client) ==
    [x \in {conv \in DOMAIN c2c :
               ~(conv \in client.conversations /\ c2c[conv] = client.clientId)} |-> c2c[x]]

\* history: the requests still bound to the connection of tab c and not
\* terminated are marked lost
MarkLost(reqs, c, how) ==
    [r \in DOMAIN reqs |->
        IF wsData[c].openaiRequestId = Some(r) /\ ~Terminated(r) /\ reqs[r].lost = "no"
        THEN [reqs[r] EXCEPT !.lost = how] ELSE reqs[r]]

\* the mutant: the loop ends after the first client it evicts
RECURSIVE cleanupInactiveTabsStopsAfterFirst(_, _, _, _)
cleanupInactiveTabsStopsAfterFirst(entries, cl, c2c, staleTime) ==
    IF entries = <<>> THEN [clients |-> cl, conversationToClient |-> c2c]
    ELSE IF Head(entries).lastHeartbeat < staleTime
         THEN [clients |-> SelectSeq(cl, LAMBDA x : x.clientId # Head(entries).clientId),
               conversationToClient |-> DeleteMappings(c2c, Head(entries))]
         ELSE cleanupInactiveTabsStopsAfterFirst(Tail(entries), cl, c2c, staleTime)

\* the loop of the sweep over clients.entries(), entry by entry: a client
\* whose heartbeat is older than staleTime loses its mappings and is deleted
RECURSIVE cleanupInactiveTabs(_, _, _, _)
cleanupInactiveTabs(entries, cl, c2c, staleTime) ==
    IF entries = <<>> THEN [clients |-> cl, conversationToClient |-> c2c]
    ELSE IF Head(entries).lastHeartbeat < staleTime
         THEN cleanupInactiveTabs(Tail(entries),
                  SelectSeq(cl, LAMBDA x : x.clientId # Head(entries).clientId),
                  DeleteMappings(c2c, Head(entries)), staleTime)
         ELSE cleanupInactiveTabs(Tail(entries), cl, c2c, staleTime)

\* one run of the sweep at time t on a registry
sweepAt(cl, c2c, t) == cleanupInactiveTabs(cl, cl, c2c, t - TAB_TIMEOUT_MS)

RECURSIVE MarkLostAll(_, _, _)
MarkLostAll(reqs, ids, how) ==
    IF ids = {} THEN reqs
    ELSE LET c == CHOOSE x \in ids : TRUE
         IN MarkLostAll(MarkLost(reqs, c, how), ids \ {c}, how)

\* setInterval callback: the sweep.  client.ws.close() of an evicted client
\* leads to websocket.close, which finds no client and does nothing.
Sweep ==
    /\ \E after \in {sweepAt(clients, conversationToClient, now)} :
          /\ clients' = after.clients
          /\ conversationToClient' = after.conversationToClient
          /\ lastSweep' = Some([at |-> now,
                                before |-> [clients |-> clients,
                                            conversationToClient |-> conversationToClient],
                                after |-> after])
          /\ requests' = MarkLostAll(requests,
                             {c \in ClientIds : HasClient(c) /\
                                 \A k \in DOMAIN after.clients : after.clients[k].clientId # c},
                             "sweep")
    /\ UNCHANGED <<wsData, listeners, sent, nFrames, now>>
    /\ UNCHANGED <<adapterVars, lastCall>>

\* websocket.close of the connection of tab c
Close(c) ==
    /\ HasClient(c)
    /\ conversationToClient' =
          DeleteMappings(conversationToClient, clients[CHOOSE k \in ClientPositions(c) : TRUE])
    /\ clients' = SelectSeq(clients, LAMBDA x : x.clientId # c)
    /\ requests' = MarkLost(requests, c, "close")
    /\ lastSweep' = None
    /\ UNCHANGED <<wsData, listeners, sent, nFrames, now>>
    /\ UNCHANGED <<adapterVars, lastCall>>

\* the clock advances
Tick ==
    /\ now < MaxTime
    /\ now' = now + 1
    /\ lastSweep' = None
    /\ UNCHANGED <<clients, conversationToClient, wsData, listeners, requests, sent, nFrames>>
    /\ UNCHANGED <<adapterVars, lastCall>>

WorkerRegister == [type |-> "worker_register", content |-> [isWorker |-> TRUE]]

UpdateActiveConversation(convId) ==
    [type |-> "worker_update_active_conversation", content |-> [conversationId |-> convId]]

RegistryEvents == {WorkerRegister, UpdateActiveConversation("conv1"), MessageStartConv}

RegistryFrame ==
    /\ nFrames < MaxRegistryFrames
    /\ \E c \in ClientIds : \E data \in RegistryEvents : WorkerFrame(c, data)

RegistryCompletions ==
    /\ Len(requests) < MaxRegistryRequests
    /\ Completions

Disconnect == \E c \in ClientIds : Close(c)

NextRegistry ==
    \/ Connect
    \/ Disconnect
    \/ RegistryFrame
    \/ RegistryCompletions
    \/ Tick
    \/ Sweep

SpecRegistry == Init /\ [][NextRegistry]_vars

----------------------------------------------------------------------------
(* The HTTP caller of a streaming request goes away before the stream    *)
(* has ended.                                                            *)

\* the caller of the streaming request r disconnects: the readable side of
\* the TransformStream is cancelled.  No code of the server runs.
CallerDisconnect(r) ==
    /\ r \in DOMAIN requests
    /\ requests[r].mode = "stream"
    /\ ~requests[r].writer.closed
    /\ ~requests[r].writer.cancelled
    /\ requests' = [requests EXCEPT ![r].writer.cancelled = TRUE]
    /\ lastSweep' = None
    /\ UNCHANGED <<clients, conversationToClient, wsData, listeners, sent, nFrames, now>>
    /\ UNCHANGED <<adapterVars, lastCall>>

Cancel == \E r \in 1..MaxRegistryRequests : CallerDisconnect(r)

CancelFrame ==
    /\ nFrames < MaxRegistryFrames
    /\ Frame

NextCancel ==
    \/ Connect
    \/ RegistryCompletions
    \/ CancelFrame
    \/ Cancel

SpecCancel == Init /\ [][NextCancel]_vars

----------------------------------------------------------------------------
(* The non-streaming conversion of a materialized message.               *)

\* x.f || dflt
Field(x, f, dflt) == IF f \in DOMAIN x THEN x[f] ELSE dflt

\* message.content?.filter((block) => block.type === t) || []
BlocksOfType(msg, t) ==
    SelectSeq(Field(msg, "content", <<>>), LAMBDA block : block.type = t)

\* JSON.stringify({ thoughts: thinking })
JsonStringifyThoughts(thinking) ==
    ThoughtsOpen \o
    ReplaceAll(ReplaceAll(ReplaceAll(ReplaceAll(ReplaceAll(thinking,
        BS, <<BS, BS>>), DQ, <<BS, DQ>>), NL, <<BS, "n">>), CR, <<BS, "r">>),
        TAB, <<BS, "t">>) \o ThinkingClose

\* this.mapStopReason(message.stop_reason) || 'stop'
finishReason(msg) ==
    LET mapped == mapStopReason(Field(msg, "stop_reason", Null))
    IN IF mapped = Null THEN "stop" ELSE mapped

\* hasToolUse ? 'tool_calls' : finishReason
finalFinishReason(msg) ==
    IF Len(BlocksOfType(msg, "tool_use")) > 0 THEN "tool_calls" ELSE finishReason(msg)

\* the completion built for the message, with the finish reason given
buildCompletion(msg, finish) ==
    LET textBlocks == BlocksOfType(msg, "text")
        textContent == Flatten([i \in 1..Len(textBlocks) |-> Field(textBlocks[i], "text", <<>>)])
        thinkingBlocks == BlocksOfType(msg, "thinking")
        toolUseBlocks == BlocksOfType(msg, "tool_use")
        usage == IF "usage" \in DOMAIN msg
                 THEN [prompt_tokens |-> 0,
                       completion_tokens |-> Field(msg.usage, "output_tokens", 0),
                       total_tokens |-> Field(msg.usage, "output_tokens", 0)]
                 ELSE ZeroUsage
        thinkingCalls ==
            [i \in 1..Len(thinkingBlocks) |->
                [id |-> Field(thinkingBlocks[i], "id", <<"thinking", i - 1>>),
                 type |-> "function",
                 function |-> [name |-> "thinking",
                               arguments |-> JsonStringifyThoughts(
                                                Field(thinkingBlocks[i], "thinking", <<>>))]]]
        toolCalls ==
            [i \in 1..Len(toolUseBlocks) |->
                [id |-> Field(toolUseBlocks[i], "id", <<"tool", i - 1>>),
                 type |-> "function",
                 function |-> [name |-> Field(toolUseBlocks[i], "name", "unknown_tool"),
                               arguments |-> JsonStringify(
                                                Field(toolUseBlocks[i], "input", <<>>))]]]
    IN [id |-> Field(msg, "id", "chatcmpl-now"),
        object |-> "chat.completion",
        model |-> mapModel(Field(msg, "model", "claude")),
        choices |-> <<[index |-> 0,
                       message |-> IF Len(thinkingBlocks) > 0 \/ Len(toolUseBlocks) > 0
                                   THEN [role |-> "assistant", content |-> textContent,
                                         tool_calls |-> thinkingCalls \o toolCalls]
                                   ELSE [role |-> "assistant", content |-> textContent],
                       finish_reason |-> finish,
                       logprobs |-> Null]>>,
        usage |-> usage]

\* the mutant: a tool_use block does not change the finish reason
convertToOpenAICompletionIgnoresToolUse(msg) == buildCompletion(msg, finishReason(msg))

convertToOpenAICompletion(msg) == buildCompletion(msg, finalFinishReason(msg))

\* content blocks of a materialized message; a field may be missing
ContentBlocks ==
    {[type |-> "text", text |-> Hi], [type |-> "text", text |-> <<"!">>], [type |-> "text"],
     [type |-> "thinking", thinking |-> <<"t", DQ>>, id |-> "th_1"], [type |-> "thinking"],
     [type |-> "tool_use", id |-> "toolu_1", name |-> "f",
      input |-> <<[key |-> "a", value |-> <<"1">>]>>],
     [type |-> "tool_use"]}

RECURSIVE SeqsUpTo(_, _)
SeqsUpTo(S, n) ==
    IF n = 0 THEN {<<>>}
    ELSE LET shorter == SeqsUpTo(S, n - 1)
         IN shorter \cup {Append(q, x) : q \in shorter, x \in S}

Messages ==
    {[id |-> "msg_1", model |-> "m", content |-> c, stop_reason |-> sr,
      usage |-> [output_tokens |-> 7]] : c \in SeqsUpTo(ContentBlocks, MaxBlocks),
                                          sr \in StopReasons}
    \cup {[stop_reason |-> sr] : sr \in StopReasons}

InitConvert ==
    /\ adapter = NewAdapter
    /\ evts = <<>>
    /\ out = <<>>
    /\ lastCall = NoCall
    /\ phase = "open"
    /\ clients = <<>>
    /\ conversationToClient = EmptyMap
    /\ wsData = [c \in ClientIds |-> [adapter |-> None, openaiRequestId |-> None]]
    /\ listeners = <<>>
    /\ requests = <<>>
    /\ sent = <<>>
    /\ nFrames = 0
    /\ now = 0
    /\ lastSweep = <<>>
    /\ claudeMessage \in {Some(m) : m \in Messages}
    /\ completion = None
    /\ sockets = [conns |-> <<>>, owner |-> EmptyMap]

\* adapter.convertToOpenAICompletion(message)
Convert ==
    /\ claudeMessage # None
    /\ completion = None
    /\ completion' = Some(convertToOpenAICompletion(claudeMessage[1]))
    /\ UNCHANGED <<adapter, evts, out, phase, claudeMessage, lastCall, serverVars, sockets>>

SpecConvert == InitConvert /\ [][Convert]_vars

----------------------------------------------------------------------------
(* Connections told apart from tab ids: a tab reconnects with the tab id *)
(* it keeps in sessionStorage, and the server may see the new connection *)
(* open before it sees the old one close.                                *)

\* clients.set(clientId, client): an entry that exists keeps its place
SetClient(cl, c, client) ==
    IF \E k \in DOMAIN cl : cl[k].clientId = c
    THEN [k \in DOMAIN cl |-> IF cl[k].clientId = c THEN client ELSE cl[k]]
    ELSE Append(cl, client)

\* websocket.open of a new connection with tabId c
SocketOpen(c) ==
    /\ Len(sockets.conns) < MaxSockets
    /\ sockets' = [conns |-> Append(sockets.conns, [clientId |-> c, state |-> "open"]),
                   owner |-> MapSet(sockets.owner, c, Len(sockets.conns) + 1)]
    /\ clients' = SetClient(clients, c,
                      [clientId |-> c, conversations |-> {}, isNewTab |-> FALSE,
                       lastHeartbeat |-> now, changed |-> FALSE])
    /\ wsData' = [wsData EXCEPT ![c] = [adapter |-> None, openaiRequestId |-> None]]
    /\ lastSweep' = None
    /\ UNCHANGED <<conversationToClient, listeners, requests, sent, nFrames, now>>
    /\ UNCHANGED <<adapter, evts, out, phase, convertVars, lastCall>>

\* websocket.close of connection n: the entry found under its tab id is
\* removed, whichever connection it was made for
SocketClose(n) ==
    /\ n \in DOMAIN sockets.conns
    /\ sockets.conns[n].state # "closed"
    /\ LET c == sockets.conns[n].clientId
       IN IF HasClient(c)
          THEN /\ conversationToClient' =
                     DeleteMappings(conversationToClient,
                                    clients[CHOOSE k \in ClientPositions(c) : TRUE])
               /\ clients' = SelectSeq(clients, LAMBDA x : x.clientId # c)
               /\ requests' = MarkLost(requests, c, "close")
               /\ sockets' = [conns |-> [sockets.conns EXCEPT ![n].state = "closed"],
                              owner |-> MapDelete(sockets.owner, c)]
          ELSE /\ sockets' = [sockets EXCEPT !.conns[n].state = "closed"]
               /\ UNCHANGED <<conversationToClient, clients, requests>>
    /\ lastSweep' = None
    /\ UNCHANGED <<wsData, listeners, sent, nFrames, now>>
    /\ UNCHANGED <<adapter, evts, out, phase, convertVars, lastCall>>

\* setInterval callback: the sweep; client.ws.close() starts the close of
\* the connection each evicted entry was made for
SocketSweep ==
    /\ \E after \in {sweepAt(clients, conversationToClient, now)} :
          \E evicted \in {{c \in ClientIds : HasClient(c) /\
                              \A k \in DOMAIN after.clients : after.clients[k].clientId # c}} :
             /\ clients' = after.clients
             /\ conversationToClient' = after.conversationToClient
             /\ lastSweep' = Some([at |-> now,
                                   before |-> [clients |-> clients,
                                               conversationToClient |-> conversationToClient],
                                   after |-> after])
             /\ requests' = MarkLostAll(requests, evicted, "sweep")
             /\ sockets' =
                   [conns |-> [n \in DOMAIN sockets.conns |->
                                 IF /\ sockets.conns[n].clientId \in evicted
                                    /\ sockets.owner[sockets.conns[n].clientId] = n
                                    /\ sockets.conns[n].state = "open"
                                 THEN [sockets.conns[n] EXCEPT !.state = "closing"]
                                 ELSE sockets.conns[n]],
                    owner |-> [c \in DOMAIN sockets.owner \ evicted |-> sockets.owner[c]]]
    /\ UNCHANGED <<wsData, listeners, sent, nFrames, now>>
    /\ UNCHANGED <<adapter, evts, out, phase, convertVars, lastCall>>

ReconnectOpen == \E c \in ClientIds : SocketOpen(c)

ReconnectClose == \E n \in 1..MaxSockets : SocketClose(n)

\* a frame arrives on a connection that is open; websocket.message looks the
\* client up by tab id
ReconnectFrame ==
    /\ nFrames < MaxRegistryFrames
    /\ \E n \in DOMAIN sockets.conns :
          /\ sockets.conns[n].state = "open"
          /\ \E data \in {UpdateActiveConversation("conv1"), MessageStartConv} :
                WorkerFrame(sockets.conns[n].clientId, data)

NextReconnect ==
    \/ ReconnectOpen
    \/ ReconnectClose
    \/ SocketSweep
    \/ ReconnectFrame
    \/ Tick

SpecReconnect == Init /\ [][NextReconnect]_vars

----------------------------------------------------------------------------
(* A worker that answers each request it is given with one message and   *)
(* sends nothing else.                                                   *)

\* the frames a worker may send after the message_start of its message
AnswerBody == {TextDelta(0, Hi)} \cup MessageDeltaEvents({"end_turn"})

\* the frames the workers still have to send to end the messages of the
\* requests bound to them: message_start and message_stop, or message_stop
RECURSIVE Owed(_)
Owed(cs) ==
    IF cs = {} THEN 0
    ELSE LET c == CHOOSE x \in cs : TRUE
         IN  (IF wsData[c].openaiRequestId = None THEN 0
              ELSE IF requests[wsData[c].openaiRequestId[1]].produced = <<>> THEN 2
              ELSE 1) + Owed(cs \ {c})

\* the next frame of the worker of tab c: message_start for a request that
\* has had nothing yet, then body frames while the frames left suffice, then
\* message_stop
AnswerFrame(c) ==
    /\ wsData[c].openaiRequestId # None
    /\ IF requests[wsData[c].openaiRequestId[1]].produced = <<>>
       THEN WorkerFrame(c, MessageStartConv)
       ELSE \/ /\ nFrames + Owed(ClientIds) + 1 <= MaxFrames
               /\ \E data \in AnswerBody : WorkerFrame(c, data)
            \/ WorkerFrame(c, MessageStopEvent)

Answer == \E c \in ClientIds : AnswerFrame(c)

\* a request is taken while the frames left suffice for its message
AnswerCompletions ==
    /\ Len(requests) < MaxRequests
    /\ nFrames + Owed(ClientIds) + 2 <= MaxFrames
    /\ Completions

NextAnswer ==
    \/ Connect
    \/ AnswerCompletions
    \/ Answer

SpecAnswer == Init /\ [][NextAnswer]_vars

\* frames that have arrived are processed
FairSpecAnswer == SpecAnswer /\ WF_vars(Answer)

----------------------------------------------------------------------------
(* Frames that do not parse.                                             *)

\* history: what the catch block of websocket.message logged
ParseFailure == [emitted |-> <<>>, returned |-> None, thrown |-> Some("SyntaxError")]

\* the mutant: the connection of a tab that sent a bad frame is dropped
MalformedFrameDrops(c) ==
    /\ HasClient(c)
    /\ nFrames < MaxRegistryFrames
    /\ nFrames' = nFrames + 1
    /\ conversationToClient' =
          DeleteMappings(conversationToClient, clients[CHOOSE k \in ClientPositions(c) : TRUE])
    /\ clients' = SelectSeq(clients, LAMBDA x : x.clientId # c)
    /\ lastCall' = ParseFailure
    /\ lastSweep' = None
    /\ UNCHANGED <<wsData, listeners, requests, sent, now>>
    /\ UNCHANGED adapterVars

\* websocket.message for a frame of tab c that is not JSON, or has no data:
\* the heartbeat is written, JSON.parse(raw).data.type throws, the catch
\* block logs the error and rethrows it
MalformedFrame(c) ==
    /\ HasClient(c)
    /\ nFrames < MaxRegistryFrames
    /\ nFrames' = nFrames + 1
    /\ clients' = Touch(clients, c)
    /\ lastCall' = ParseFailure
    /\ lastSweep' = None
    /\ UNCHANGED <<conversationToClient, wsData, listeners, requests, sent, now>>
    /\ UNCHANGED adapterVars

Malformed == \E c \in ClientIds : MalformedFrame(c)

\* frames that parse and are handed to processAdapterEvent
ParsedEvents == {MessageStartConv, TextDelta(0, Hi), MessageStopEvent}

ParsedFrame ==
    /\ nFrames < MaxRegistryFrames
    /\ \E c \in ClientIds : \E data \in ParsedEvents : WorkerFrame(c, data)

NextMalformed ==
    \/ Connect
    \/ RegistryCompletions
    \/ ParsedFrame
    \/ Malformed

SpecMalformed == Init /\ [][NextMalformed]_vars

----------------------------------------------------------------------------
(* Requests answered from a message with a tool_use block or a stop      *)
(* reason.                                                               *)

SyncEvents ==
    {MessageStartConv, ToolUseStartNoInput(0), MessageStopEvent}
    \cup MessageDeltaEvents({"max_tokens"})

SyncFrame ==
    /\ nFrames < MaxRegistryFrames
    /\ \E c \in ClientIds : \E data \in SyncEvents : WorkerFrame(c, data)

NextSync ==
    \/ Connect
    \/ RegistryCompletions
    \/ SyncFrame

SpecSync == Init /\ [][NextSync]_vars

----------------------------------------------------------------------------
(* The fresh flag of a tab over one connection: registrations and        *)
(* conversation updates only.                                            *)

MaxFreshFrames == 3

FreshEvents == {WorkerRegister, UpdateActiveConversation("conv1"),
                UpdateActiveConversation("conv2")}

FreshFrame ==
    /\ nFrames < MaxFreshFrames
    /\ \E c \in ClientIds : \E data \in FreshEvents : WorkerFrame(c, data)

NextFresh ==
    \/ Connect
    \/ Disconnect
    \/ FreshFrame

SpecFresh == Init /\ [][NextFresh]_vars

\* the event loop keeps running: a timer or handler that can run does run
FairSpecRegistry == SpecRegistry /\ WF_vars(NextRegistry)

----------------------------------------------------------------------------
(* Reading the output *)

IsTerminalChunk(c) == DOMAIN c.delta = {}
IsToolCallChunk(c) == "tool_calls" \in DOMAIN c.delta
IsContentChunk(c) == DOMAIN c.delta = {"content"}
IsRoleChunk(c) == "role" \in DOMAIN c.delta

TerminalPositions == {k \in 1..Len(out) : IsTerminalChunk(out[k].chunk)}

\* the argument fragments emitted under tool-call id `id`, concatenated in order
ArgsIn(chunks, id) ==
    Flatten([k \in 1..Len(chunks) |->
        IF IsToolCallChunk(chunks[k].chunk) /\ chunks[k].chunk.delta.tool_calls[1].id = id
        THEN chunks[k].chunk.delta.tool_calls[1].function.arguments
        ELSE <<>>])

EndsWith(s, suffix) ==
    /\ Len(s) >= Len(suffix)
    /\ SubSeq(s, Len(s) - Len(suffix) + 1, Len(s)) = suffix

\* the input is one message: message_start first, message_stop last
OneMessage ==
    /\ phase = "stopped"
    /\ evts[1].type = "message_start"

Positions(type) == {k \in 1..Len(evts) : evts[k].type = type}

IsBlockStart(e, kind) ==
    /\ e.type = "content_block_start"
    /\ "content_block" \in DOMAIN e
    /\ e.content_block.type = kind

\* a block of this kind was started after the last message_start
BlockStarted(kind) ==
    \E k \in 1..Len(evts) :
        /\ IsBlockStart(evts[k], kind)
        /\ \A j \in Positions("message_start") : j < k

\* the stop reason of the last message_delta after the last message_start
DeliveredStopReason ==
    LET ds == {k \in Positions("message_delta") :
                  \A j \in Positions("message_start") : j < k}
    IN IF ds = {} THEN Null
       ELSE evts[CHOOSE k \in ds : \A j \in ds : j <= k].delta.stop_reason

----------------------------------------------------------------------------
(* C1: for an event sequence from message_start to message_stop exactly  *)
(* one terminal chunk is emitted, and its finish reason is not null.     *)
(* This is the claim as stated; the adapter refutes it.                  *)
C1_TerminalNonNull ==
    OneMessage =>
        /\ Cardinality(TerminalPositions) = 1
        /\ \A k \in TerminalPositions : out[k].chunk.finish_reason # Null

(* C1, amended: for an event sequence from message_start to message_stop *)
(* exactly one terminal chunk is emitted, as the last chunk; its finish  *)
(* reason is null exactly when no tool_use block is open at message_stop *)
(* and the delivered stop reason is none of end_turn, max_tokens,        *)
(* stop_sequence, tool_use.                                              *)
C1_ExactlyOneTerminal ==
    OneMessage =>
        /\ TerminalPositions = {Len(out)}
        /\ out[Len(out)].ev = Len(evts)
        /\ (out[Len(out)].chunk.finish_reason = Null) <=>
              (/\ adapter.currentToolUseBlocks = {}
               /\ DeliveredStopReason \notin
                     {"end_turn", "max_tokens", "stop_sequence", "tool_use"})

C1_Witness ==
    /\ OneMessage
    /\ Positions("message_delta") = {}
    /\ TerminalPositions = {Len(out)}
    /\ out[Len(out)].chunk.finish_reason = Null

(* C2: if a tool_use block was started in the message, closed or not,    *)
(* the terminal chunk's finish reason is tool_calls whatever stop reason *)
(* message_delta delivered.                                              *)
C2_ToolUseFinishesToolCalls ==
    (OneMessage /\ BlockStarted("tool_use")) =>
        out[Len(out)].chunk.finish_reason = "tool_calls"

(* C6: once message_stop has been processed, the argument stream of      *)
(* every thinking or tool_use block that was still open ends with its    *)
(* closing fragment, emitted before the terminal chunk.                  *)
C6_OpenBlocksClosedAtStop ==
    OneMessage =>
        /\ \A i \in adapter.currentThinkingBlocks :
              EndsWith(ArgsIn(out, adapter.toolCallIds[i]), ThinkingClose)
        /\ \A i \in adapter.currentToolUseBlocks :
              EndsWith(ArgsIn(out, adapter.toolCallIds[i]), ToolClose)

----------------------------------------------------------------------------
\* what a message of text blocks must produce for its k-th event: the
\* delta and finish reason of the chunk, or nothing
ExpectedForText(k) ==
    LET e == evts[k]
    IN CASE e.type = "message_start" ->
              <<[delta |-> [role |-> "assistant", content |-> <<>>], finish_reason |-> Null]>>
         [] e.type = "content_block_start" /\ e.content_block.text # <<>> ->
              <<[delta |-> [content |-> e.content_block.text], finish_reason |-> Null]>>
         [] e.type = "content_block_delta" /\ e.delta.text # <<>> ->
              <<[delta |-> [content |-> e.delta.text], finish_reason |-> Null]>>
         [] e.type = "message_stop" ->
              <<[delta |-> EmptyObject,
                 finish_reason |->
                    CASE DeliveredStopReason \in {"end_turn", "stop_sequence"} -> "stop"
                      [] DeliveredStopReason = "max_tokens" -> "length"
                      [] OTHER -> Null]>>
         [] OTHER -> <<>>

Shapes(chunks) ==
    [k \in 1..Len(chunks) |->
        [delta |-> chunks[k].chunk.delta, finish_reason |-> chunks[k].chunk.finish_reason]]

ScenarioA ==
    <<MessageStartEvent, TextStart(0, <<>>), TextDelta(0, Hi), BlockStop(0),
      [type |-> "message_delta", delta |-> [stop_reason |-> "end_turn"],
       usage |-> [output_tokens |-> 7]],
      MessageStopEvent>>

(* C5: a message of text blocks only produces exactly the role chunk for *)
(* message_start, one content chunk per non-empty initial text and       *)
(* text_delta with that text unmodified and in arrival order, nothing    *)
(* for content_block_stop and message_delta, and then the terminal       *)
(* chunk; Scenario A gives [role, content("Hi"), terminal(stop)].        *)
C5_TextOnlyOutput ==
    OneMessage =>
        /\ Shapes(out) = Flatten([k \in 1..Len(evts) |-> ExpectedForText(k)])
        /\ \A k \in 1..Len(out) : ExpectedForText(out[k].ev) # <<>>
        /\ evts = ScenarioA =>
              Shapes(out) =
                 << [delta |-> [role |-> "assistant", content |-> <<>>], finish_reason |-> Null],
                    [delta |-> [content |-> Hi], finish_reason |-> Null],
                    [delta |-> EmptyObject, finish_reason |-> "stop"] >>

C5_Witness ==
    /\ evts = ScenarioA
    /\ Len(out) = 3
    /\ out[3].chunk.finish_reason = "stop"
    /\ out[2].chunk.delta.content = Hi

----------------------------------------------------------------------------
\* the input is one block: its start, then deltas only, then its stop
OneBlock(kind) ==
    /\ Len(evts) >= 2
    /\ IsBlockStart(evts[1], kind)
    /\ evts[Len(evts)].type = "content_block_stop"
    /\ \A k \in 2..(Len(evts) - 1) : evts[k].type = "content_block_delta"

\* JSON string un-escaping as a JSON parser does it: a raw quote or a raw
\* control character is rejected, and so is an unknown or cut-off escape
RECURSIVE JsonUnescape(_)
JsonUnescape(s) ==
    IF s = <<>> THEN [ok |-> TRUE, text |-> <<>>]
    ELSE IF Head(s) = BS
    THEN IF Len(s) < 2 \/ s[2] \notin {BS, DQ, "n", "r", "t"}
         THEN [ok |-> FALSE, text |-> <<>>]
         ELSE LET rest == JsonUnescape(SubSeq(s, 3, Len(s)))
                  c == CASE s[2] = "n" -> NL
                         [] s[2] = "r" -> CR
                         [] s[2] = "t" -> TAB
                         [] OTHER -> s[2]
              IN [ok |-> rest.ok, text |-> <<c>> \o rest.text]
    ELSE IF Head(s) \in {DQ, NL, CR, TAB}
    THEN [ok |-> FALSE, text |-> <<>>]
    ELSE LET rest == JsonUnescape(Tail(s))
         IN [ok |-> rest.ok, text |-> <<Head(s)>> \o rest.text]

\* the initial thinking text and the thinking_delta payloads, concatenated
ThinkingText ==
    evts[1].content_block.thinking \o
    Flatten([k \in 1..(Len(evts) - 2) |-> evts[k + 1].delta.thinking])

ScenarioB == <<ThinkingStart(0, <<>>), ThinkingDelta(0, Abc), BlockStop(0)>>

ThoughtsAbc ==
    <<"{", DQ, "t", "h", "o", "u", "g", "h", "t", "s", DQ, ":", DQ, "a", "b", "c", DQ, "}">>

----------------------------------------------------------------------------
\* the output of a fresh adapter fed the events es, as Process builds it
RECURSIVE RunFrom(_, _, _)
RunFrom(ad, es, n) ==
    IF es = <<>> THEN <<>>
    ELSE LET r == processEvent(ad, Head(es))
         IN (IF r.returned = None THEN <<>>
             ELSE <<[ev |-> n, chunk |-> r.returned[1]]>>)
            \o RunFrom(r.adapter, Tail(es), n + 1)

Run(es) == RunFrom(NewAdapter, es, 1)

HasInput(e) ==
    /\ "input" \in DOMAIN e.content_block
    /\ Len(e.content_block.input) > 0

\* the same events, except that a tool_use start carrying input carries
\* none and one carrying none carries some
FlipInput(es) ==
    [k \in 1..Len(es) |->
        IF ~IsBlockStart(es[k], "tool_use") THEN es[k]
        ELSE IF HasInput(es[k]) THEN ToolUseStartNoInput(es[k].index)
        ELSE ToolUseStart(es[k].index, SomeInput)]

(* C4: the argument fragments of a tool_use block, concatenated, are '{' *)
(* followed by all input_json_delta fragments in arrival order and '}',  *)
(* and the run that differs only in whether input was present at the     *)
(* block's start yields the identical string.                            *)
C4_ToolArgumentsFromDeltas ==
    OneBlock("tool_use") =>
        LET args == ArgsIn(out, <<"toolu", 0>>)
            deltas == Flatten([k \in 1..(Len(evts) - 2) |-> evts[k + 1].delta.partial_json])
        IN /\ args = <<"{">> \o deltas \o <<"}">>
           /\ ArgsIn(Run(FlipInput(evts)), <<"toolu", 0>>) = args

C4_Witness ==
    /\ evts = <<ToolUseStart(0, SomeInput), InputJsonDelta(0, <<DQ, "k", DQ, ":">>),
                InputJsonDelta(0, <<"1">>), BlockStop(0)>>
    /\ ArgsIn(out, <<"toolu", 0>>) = <<"{", DQ, "k", DQ, ":", "1", "}">>
    /\ ~HasInput(FlipInput(evts)[1])

----------------------------------------------------------------------------
(* Reading the server state *)

Requests == 1..Len(requests)

\* the chunks that reached the request's response sink, in order
Delivered(r) ==
    IF requests[r].mode = "stream"
    THEN LET data == SelectSeq(requests[r].writer.frames, LAMBDA f : f.frame = "data")
         IN [k \in 1..Len(data) |-> data[k].chunk]
    ELSE requests[r].chunks

ListenersOf(r) == {k \in 1..Len(listeners) : listeners[k].owner = r}

(* C7: every processEvent call emits and returns at most one chunk, and  *)
(* the chunks delivered to a request's sink are, in order, the chunks    *)
(* the adapter returned for that request's events, each for one event of *)
(* its own and in the order of the events.                               *)
C7_OneChunkPerEventInOrder ==
    /\ Len(lastCall.emitted) <= 1
    /\ Len(lastCall.returned) <= 1
    /\ \A r \in Requests :
          LET produced == requests[r].produced
              delivered == Delivered(r)
          IN /\ Len(delivered) <= Len(produced)
             /\ \A k \in 1..Len(delivered) : delivered[k] = produced[k].chunk
             /\ \A j, k \in 1..Len(produced) : j < k => produced[j].ev < produced[k].ev

C7_Witness ==
    \E r \in Requests :
        /\ requests[r].mode = "sync"
        /\ Len(requests[r].chunks) = 2
        /\ IsRoleChunk(requests[r].chunks[1])
        /\ IsContentChunk(requests[r].chunks[2])
        /\ requests[r].produced[2].ev = 3

C9_StreamFaultTerminates ==
    \A r \in Requests :
        (requests[r].mode = "stream" /\ requests[r].faults > 0) =>
            /\ requests[r].writer.closed
            /\ \A k \in ListenersOf(r) : listeners[k].topic \notin AllTopics(r)

(* C10: after a request's terminal signal has been handled no listener   *)
(* of that request remains on the bridge, in stream and non-stream mode, *)
(* and nothing was written to its closed stream or resolved twice.       *)
C10_NoListenerAfterTerminal ==
    \A r \in Requests :
        Terminated(r) =>
            /\ ListenersOf(r) = {}
            /\ requests[r].writer.rejected = 0
            /\ Len(requests[r].resolved) = 1

----------------------------------------------------------------------------
\* the positions of the end marker 'data: [DONE]' in the body of request r
DonePositions(r) ==
    {k \in 1..Len(requests[r].writer.frames) : requests[r].writer.frames[k].frame = "done"}

(* C11: in stream mode the response body is, in emission order, one data *)
(* frame for every chunk the adapter returned for the request; the end   *)
(* marker is written at most once, and when the body is closed exactly   *)
(* once, as the last frame, right after the frame of the terminal chunk; *)
(* no write was attempted after it.                                      *)
C11_StreamFramesThenDone ==
    \A r \in Requests :
        requests[r].mode = "stream" =>
            LET frames == requests[r].writer.frames
                produced == requests[r].produced
            IN /\ Len(Delivered(r)) = Len(produced)
               /\ \A k \in 1..Len(produced) :
                     frames[k] = [frame |-> "data", chunk |-> produced[k].chunk]
               /\ Cardinality(DonePositions(r)) <= 1
               /\ requests[r].writer.closed <=> DonePositions(r) # {}
               /\ requests[r].writer.rejected = 0
               /\ \A d \in DonePositions(r) :
                     /\ d = Len(frames)
                     /\ d > 1
                     /\ frames[d - 1].frame = "data"
                     /\ IsTerminalChunk(frames[d - 1].chunk)

\* a stream of role chunk, content chunk, terminal chunk and the end marker
C11_Witness ==
    \E r \in Requests :
        /\ requests[r].mode = "stream"
        /\ Len(requests[r].writer.frames) = 4
        /\ IsRoleChunk(requests[r].writer.frames[1].chunk)
        /\ IsContentChunk(requests[r].writer.frames[2].chunk)
        /\ IsTerminalChunk(requests[r].writer.frames[3].chunk)
        /\ requests[r].writer.frames[4] = [frame |-> "done"]
        /\ requests[r].writer.closed

----------------------------------------------------------------------------
\* the content-delta texts of the chunks the adapter returned for request r
ContentTexts(r) ==
    [k \in 1..Len(requests[r].produced) |->
        IF "content" \in DOMAIN requests[r].produced[k].chunk.delta
        THEN requests[r].produced[k].chunk.delta.content ELSE <<>>]

\* the terminal signal of request r was raised: its completion (the chunk
\* of message_stop is the last one produced) or an adapter fault
Signalled(r) ==
    \/ requests[r].faults > 0
    \/ /\ Len(requests[r].produced) > 0
       /\ IsTerminalChunk(requests[r].produced[Len(requests[r].produced)].chunk)

(* C12: a request without stream is answered exactly when its terminal   *)
(* signal has been raised, once, with one JSON object and no chunked     *)
(* body, however many chunks the adapter returned; the content of a      *)
(* completion is the concatenation, in order, of the content-delta texts *)
(* of those chunks.                                                      *)
C12_SyncOneResponseAtSignal ==
    \A r \in Requests :
        requests[r].mode = "sync" =>
            /\ Len(requests[r].resolved) = (IF Signalled(r) THEN 1 ELSE 0)
            /\ requests[r].writer.frames = <<>>
            /\ \A k \in 1..Len(requests[r].resolved) :
                  LET response == requests[r].resolved[k]
                  IN /\ \/ "error" \in DOMAIN response.body
                        \/ "object" \in DOMAIN response.body
                     /\ response.status = 200 =>
                           /\ response.body.object = "chat.completion"
                           /\ Len(response.body.choices) = 1
                           /\ response.body.choices[1].message.content =
                                 Flatten(ContentTexts(r))

\* a completion built from two content chunks and the terminal chunk
C12_Witness ==
    \E r \in Requests :
        /\ requests[r].mode = "sync"
        /\ Len(requests[r].produced) = 3
        /\ IsContentChunk(requests[r].produced[1].chunk)
        /\ IsContentChunk(requests[r].produced[2].chunk)
        /\ Len(requests[r].resolved) = 1
        /\ requests[r].resolved[1].status = 200
        /\ requests[r].resolved[1].body.choices[1].message.content = Hi \o Hi

----------------------------------------------------------------------------
\* the conversation ids a request may name; "conv2" never gets an entry
AuthIds == {Null, "conv1", "conv2"}

Registered == {clients[k].clientId : k \in 1..Len(clients)}

\* the affinity map holds a worker of the registry for the conversation
LiveAffinity(a) ==
    /\ a # Null
    /\ a \in DOMAIN conversationToClient
    /\ conversationToClient[a] \in Registered

FreshPositions == {k \in 1..Len(clients) : clients[k].isNewTab}

(* C13: the selection returns the worker of the live affinity entry of   *)
(* the preferred conversation; else the first worker in registry order   *)
(* whose fresh flag is set; else some registered worker; else none.  A   *)
(* returned worker is in the registry.                                   *)
C13_SelectionOrder ==
    \A a \in AuthIds :
        LET selected == findBestClientForRequest(a)
        IN /\ selected # None => selected[1] \in Registered
           /\ IF LiveAffinity(a)
              THEN selected = Some(conversationToClient[a])
              ELSE IF FreshPositions # {}
              THEN selected = Some(clients[CHOOSE k \in FreshPositions :
                                             \A j \in FreshPositions : k <= j].clientId)
              ELSE IF Len(clients) > 0
              THEN selected # None
              ELSE selected = None

\* two fresh workers and no affinity entry: the request went to the first
C13_Witness ==
    /\ Len(clients) = 2
    /\ FreshPositions = {1, 2}
    /\ conversationToClient = EmptyMap
    /\ Len(requests) = 1
    /\ requests[1].client = clients[1].clientId
    /\ sent = <<[to |-> clients[1].clientId, type |-> "new_chat_request"]>>

(* C14: whenever the affinity map holds a registered worker for a        *)
(* conversation, the selection for that conversation is exactly that     *)
(* worker, whether or not other workers are flagged fresh.  The         *)
(* selection reads clients and conversationToClient only, so two calls   *)
(* in one state agree.                                                   *)
C14_AffinityWins ==
    \A a \in AuthIds :
        LiveAffinity(a) => findBestClientForRequest(a) = Some(conversationToClient[a])

\* the conversation's worker is not fresh and comes after a fresh one, and
\* the request went to it
C14_Witness ==
    /\ Len(clients) = 2
    /\ clients[1].isNewTab
    /\ ~clients[2].isNewTab
    /\ LiveAffinity("conv1")
    /\ conversationToClient["conv1"] = clients[2].clientId
    /\ Len(requests) = 1
    /\ requests[1].client = clients[2].clientId
    /\ findBestClientForRequest(Null) = Some(clients[1].clientId)

----------------------------------------------------------------------------
\* the registry as the sweep reads and writes it
Registry == [clients |-> clients, conversationToClient |-> conversationToClient]

(* C15: the sweep is idempotent: in every registry state, running it a   *)
(* second time with the same timestamp gives the registry and affinity   *)
(* map of the first run; in the state a sweep has just left, a sweep at  *)
(* that timestamp changes nothing.                                       *)
C15_SweepIdempotent ==
    /\ LET once == sweepAt(clients, conversationToClient, now)
       IN sweepAt(once.clients, once.conversationToClient, now) = once
    /\ lastSweep # None =>
          /\ Registry = lastSweep[1].after
          /\ sweepAt(clients, conversationToClient, lastSweep[1].at) = Registry

\* a sweep has just evicted both workers, one of them owning a mapping
C15_Witness ==
    /\ lastSweep # None
    /\ Len(lastSweep[1].before.clients) = 2
    /\ lastSweep[1].before.conversationToClient # EmptyMap
    /\ clients = <<>>
    /\ conversationToClient = EmptyMap

\* the tab ids the sweep at time t finds stale in the registry reg
StaleIds(reg, t) ==
    {reg.clients[k].clientId : k \in {j \in 1..Len(reg.clients) :
                                        reg.clients[j].lastHeartbeat < t - TAB_TIMEOUT_MS}}

----------------------------------------------------------------------------
\* request r was still bound to its worker and open when the worker's
\* connection was dropped by `how`
Lost(r, how) == r \in DOMAIN requests /\ requests[r].lost = how

\* request r has had the error terminal signal: a 500 response, or an
\* error frame and the end of the body
Failed(r) ==
    /\ r \in DOMAIN requests
    /\ \/ /\ requests[r].mode = "sync"
          /\ Len(requests[r].resolved) > 0
          /\ requests[r].resolved[1].status = 500
       \/ /\ requests[r].mode = "stream"
          /\ requests[r].writer.closed
          /\ \E k \in 1..Len(requests[r].writer.frames) :
                requests[r].writer.frames[k].frame = "error"

\* a request that lost its worker and has not failed never fails later
LostStaysPending ==
    [][\A r \in DOMAIN requests :
          (requests[r].lost # "no" /\ ~Failed(r)) => ~Failed(r)']_vars

(* C17: a request that is bound to a worker and not yet terminated when  *)
(* the sweep evicts that worker gets the error terminal signal: it       *)
(* eventually fails.  The server never signals it.                       *)
C17_EvictedRequestFails ==
    \A r \in 1..MaxRequests : [](Lost(r, "sweep") => <>Failed(r))

(* C18: a request whose worker's connection closes after some of its     *)
(* events and before message_stop eventually ends with a terminal error, *)
(* in stream and in non-stream mode.  The server never signals it.       *)
C18_ClosedMidStreamFails ==
    \A r \in 1..MaxRequests :
        []((Lost(r, "close") /\ Len(requests[r].produced) > 0) => <>Failed(r))

----------------------------------------------------------------------------
(* C19: a completion request that arrives while the registry is empty is *)
(* answered with status 503; the step binds no adapter and no request id *)
(* to any connection, registers no listener, sends nothing to a worker   *)
(* and leaves the registry and the affinity map as they were.            *)
C19_NoWorker503 ==
    [][(clients = <<>> /\ Len(requests') = Len(requests) + 1) =>
          /\ requests'[Len(requests')].resolved # <<>>
          /\ requests'[Len(requests')].resolved[1].status = 503
          /\ requests'[Len(requests')].client = Null
          /\ UNCHANGED <<wsData, listeners, sent, clients, conversationToClient>>]_vars

\* a request was refused after the only worker had gone
C19_Witness ==
    /\ clients = <<>>
    /\ Len(requests) = 1
    /\ requests[1].mode = "rejected"
    /\ requests[1].resolved = <<[status |-> 503, body |-> [error |-> "No clients connected"]]>>
    /\ listeners = <<>>
    /\ sent = <<>>
    /\ nFrames > 0

----------------------------------------------------------------------------
\* request r was dispatched to a worker and has not had its terminal signal
InFlight(r) == requests[r].mode # "rejected" /\ ~Terminated(r)

(* C20: every in-flight request is the one request bound to its worker's *)
(* connection, with an adapter, and no two in-flight requests share a    *)
(* worker: a dispatch never takes the binding of a request that has not  *)
(* terminated.                                                           *)
C20_InFlightStaysBound ==
    /\ \A r \in Requests :
          InFlight(r) =>
              /\ wsData[requests[r].client].openaiRequestId = Some(r)
              /\ wsData[requests[r].client].adapter # None
    /\ \A r1, r2 \in Requests :
          (InFlight(r1) /\ InFlight(r2) /\ requests[r1].client = requests[r2].client)
              => r1 = r2

----------------------------------------------------------------------------
\* the sessions of the registry without their heartbeats, which every frame
\* of a worker renews
Sessions(cl) ==
    [k \in 1..Len(cl) |-> [clientId |-> cl[k].clientId,
                           conversations |-> cl[k].conversations,
                           isNewTab |-> cl[k].isNewTab]]

\* the listeners of request r, in registration order
ListenerSeqOf(ls, r) == SelectSeq(ls, LAMBDA l : l.owner = r)

\* this step left every request other than r as it was: sink, response,
\* listeners and binding
OthersUntouched(r) ==
    \A q \in DOMAIN requests :
        q # r =>
            /\ requests'[q] = requests[q]
            /\ ListenerSeqOf(listeners', q) = ListenerSeqOf(listeners, q)
            /\ \A c \in ClientIds :
                  wsData[c].openaiRequestId = Some(q) => wsData'[c] = wsData[c]

(* C21: a step in which a request fails, by a fault of its adapter, by a *)
(* vendor error frame of its worker or by finding no worker, leaves the  *)
(* sessions of the registry and the affinity map as they were and leaves *)
(* every other request as it was: its delivered chunks, its response and *)
(* its listeners.                                                        *)
C21_FailureIsolated ==
    [][/\ \A r \in DOMAIN requests :
             requests'[r].faults > requests[r].faults =>
                 /\ Sessions(clients') = Sessions(clients)
                 /\ conversationToClient' = conversationToClient
                 /\ OthersUntouched(r)
       /\ (Len(requests') = Len(requests) + 1 /\ requests'[Len(requests')].mode = "rejected") =>
             /\ clients' = clients
             /\ conversationToClient' = conversationToClient
             /\ OthersUntouched(Len(requests'))
       /\ \A c \in ClientIds :
             WorkerFrame(c, ErrorEvent) =>
                 /\ Sessions(clients') = Sessions(clients)
                 /\ conversationToClient' = conversationToClient
                 /\ \A q \in DOMAIN requests :
                       wsData[c].openaiRequestId # Some(q) =>
                           /\ requests'[q] = requests[q]
                           /\ ListenerSeqOf(listeners', q) = ListenerSeqOf(listeners, q)]_vars

\* the adapter of the second request threw while the first request, a
\* stream on the other worker, had a chunk and was still open
C21_Witness ==
    /\ Len(requests) = 2
    /\ requests[2].faults = 1
    /\ requests[1].mode = "stream"
    /\ requests[1].client # requests[2].client
    /\ Len(requests[1].writer.frames) = 1
    /\ ~requests[1].writer.closed
    /\ lastCall.thrown # None

----------------------------------------------------------------------------
(* C22: once a write to the stream of a request has failed because the   *)
(* HTTP caller had disconnected, no listener of that request is left on  *)
(* the bridge.                                                           *)
C22_CancelDeregisters ==
    \A r \in Requests :
        (requests[r].writer.cancelled /\ requests[r].writer.rejected > 0) =>
            ListenersOf(r) = {}

----------------------------------------------------------------------------
(* C23: once the adapter of a request has thrown, no later step hands an *)
(* event of that request to the adapter: the request gets no further     *)
(* chunk and no further fault.                                           *)
C23_NoEventAfterFault ==
    [][\A r \in Requests :
           requests[r].faults > 0 =>
               /\ requests'[r].produced = requests[r].produced
               /\ requests'[r].faults = requests[r].faults]_vars
----------------------------------------------------------------------------
(* C24: a tab whose fresh flag was cleared because a conversation became *)
(* active on it is not fresh again for as long as its connection is      *)
(* registered, whatever it sends.                                        *)
C24_FreshNeverReturns ==
    \A k \in DOMAIN clients : clients[k].changed => ~clients[k].isNewTab
----------------------------------------------------------------------------
RegisteredIds(cl) == {cl[k].clientId : k \in DOMAIN cl}

(* C25: the affinity map is last-write-wins.  A step in which a tab      *)
(* reports conversation conv1 as active, by worker_update_active_        *)
(* conversation or by a message_start that carries it, leaves the entry  *)
(* of conv1 at that tab, whoever held it; and a step that removes tabs   *)
(* from the registry (close or sweep) leaves every entry whose owner     *)
(* stays registered as it was.                                           *)
C25_AffinityLastWriteWins ==
    [][/\ \A c \in ClientIds :
             \A data \in {UpdateActiveConversation("conv1"), MessageStartConv} :
                 WorkerFrame(c, data) =>
                     /\ "conv1" \in DOMAIN conversationToClient'
                     /\ conversationToClient'["conv1"] = c
       /\ \A conv \in DOMAIN conversationToClient :
             (/\ RegisteredIds(clients') # RegisteredIds(clients)
              /\ RegisteredIds(clients') \subseteq RegisteredIds(clients)
              /\ conversationToClient[conv] \in RegisteredIds(clients')) =>
                 /\ conv \in DOMAIN conversationToClient'
                 /\ conversationToClient'[conv] = conversationToClient[conv]]_vars

\* a sweep has just evicted a tab that had reported conv1, while the entry
\* of conv1 was held by the other tab, which had reported it too
C25_Witness ==
    /\ lastSweep # None
    /\ Len(lastSweep[1].before.clients) = 2
    /\ \A k \in 1..2 : "conv1" \in lastSweep[1].before.clients[k].conversations
    /\ Len(clients) = 1
    /\ lastSweep[1].before.conversationToClient["conv1"] = clients[1].clientId
    /\ "conv1" \in DOMAIN conversationToClient
    /\ conversationToClient["conv1"] = clients[1].clientId
----------------------------------------------------------------------------
RECURSIVE TextOf(_)
\* the text of the text blocks of a content array, in order
TextOf(content) ==
    IF content = <<>> THEN <<>>
    ELSE (IF Head(content).type = "text" /\ "text" \in DOMAIN Head(content)
          THEN Head(content).text ELSE <<>>) \o TextOf(Tail(content))

CountType(content, t) == Cardinality({i \in 1..Len(content) : content[i].type = t})

ContentOf(msg) == IF "content" \in DOMAIN msg THEN msg.content ELSE <<>>

FunctionCalls(choice) ==
    IF "tool_calls" \in DOMAIN choice.message THEN choice.message.tool_calls ELSE <<>>

\* what the conversion always does: one choice, the text of the text blocks
\* in order, one function-call entry per thinking and per tool_use block
ConvertedShape(msg, c) ==
    /\ Len(c.choices) = 1
    /\ c.object = "chat.completion"
    /\ c.choices[1].message.content = TextOf(ContentOf(msg))
    /\ Len(FunctionCalls(c.choices[1])) =
          CountType(ContentOf(msg), "thinking") + CountType(ContentOf(msg), "tool_use")
    /\ \A i \in 1..Len(FunctionCalls(c.choices[1])) :
          /\ FunctionCalls(c.choices[1])[i].type = "function"
          /\ (FunctionCalls(c.choices[1])[i].function.name = "thinking")
                <=> (i <= CountType(ContentOf(msg), "thinking"))

(* C26 as stated: the completion has the text of the text blocks in      *)
(* order as content, one function-call entry per thinking and per        *)
(* tool_use block, and the finish reason tool_calls if the message has a *)
(* tool_use block and the mapped stop reason otherwise.                  *)
C26_FinishIsMappedStopReason ==
    completion # None =>
        /\ ConvertedShape(claudeMessage[1], completion[1])
        /\ completion[1].choices[1].finish_reason =
              IF CountType(ContentOf(claudeMessage[1]), "tool_use") > 0 THEN "tool_calls"
              ELSE mapStopReason(Field(claudeMessage[1], "stop_reason", Null))

(* C26 amended: as above, but without a tool_use block the finish reason *)
(* is the mapped stop reason when the mapping knows the stop reason, and *)
(* stop when the stop reason is missing or unknown to the mapping.       *)
C26_ConvertedCompletion ==
    completion # None =>
        /\ ConvertedShape(claudeMessage[1], completion[1])
        /\ completion[1].choices[1].finish_reason =
              IF CountType(ContentOf(claudeMessage[1]), "tool_use") > 0 THEN "tool_calls"
              ELSE IF Field(claudeMessage[1], "stop_reason", Null) \in
                        {"end_turn", "max_tokens", "stop_sequence", "tool_use"}
                   THEN mapStopReason(claudeMessage[1].stop_reason)
                   ELSE "stop"

\* a message of a text block and a tool_use block with a stop reason the
\* mapping knows was converted
C26_Witness ==
    /\ completion # None
    /\ Len(ContentOf(claudeMessage[1])) = 2
    /\ claudeMessage[1].content[1].type = "text"
    /\ claudeMessage[1].content[2].type = "tool_use"
    /\ claudeMessage[1].stop_reason = "max_tokens"
    /\ completion[1].choices[1].message.content = Hi
    /\ completion[1].choices[1].finish_reason = "tool_calls"
----------------------------------------------------------------------------
\* the chunks among cs that start a function call
CallStarts(cs) ==
    {k \in 1..Len(cs) : IsToolCallChunk(cs[k]) /\ "type" \in DOMAIN cs[k].delta.tool_calls[1]}

(* C27: the JSON response of a request without stream has the finish     *)
(* reason of the terminal chunk the adapter returned for that request    *)
(* (tool_calls for a tool_use block, the mapped stop reason otherwise),   *)
(* and one function-call entry for each thinking or tool_use block the   *)
(* adapter announced.                                                    *)
C27_SyncFinishAsTerminalChunk ==
    \A r \in Requests :
        (/\ requests[r].mode = "sync"
         /\ Len(requests[r].resolved) = 1
         /\ requests[r].resolved[1].status = 200) =>
            LET chunks == requests[r].chunks
                choice == requests[r].resolved[1].body.choices[1]
            IN /\ choice.finish_reason = chunks[Len(chunks)].finish_reason
               /\ Len(FunctionCalls(choice)) = Cardinality(CallStarts(chunks))
----------------------------------------------------------------------------
\* a newline followed by [SUMMARY: <summary>]
WrappedSummary(summary) ==
    <<NL, "[", "S", "U", "M", "M", "A", "R", "Y", ":", " ">> \o summary \o <<"]">>

IsSummaryDelta(e) ==
    /\ e.type = "content_block_delta"
    /\ e.delta.type = "thinking_summary_delta"

(* C28: every thinking_summary_delta on a started thinking block gave    *)
(* one tool-call-delta chunk whose argument fragment is the JSON-escaped *)
(* newline and [SUMMARY: <summary>], and right after the call the        *)
(* block's accumulated thinking text ends with that wrapped payload.     *)
C28_SummaryDeltaEmitsWrapped ==
    \A k \in 1..Len(evts) :
        (/\ IsSummaryDelta(evts[k])
         /\ \E j \in 1..(k - 1) : evts[j] \in {ThinkingStart(0, t) : t \in ThinkingInitials}) =>
            /\ \E n \in 1..Len(out) :
                  /\ out[n].ev = k
                  /\ IsToolCallChunk(out[n].chunk)
                  /\ out[n].chunk.delta.tool_calls[1].function.arguments =
                        escapeJsonString(WrappedSummary(evts[k].delta.summary.summary))
            /\ k = Len(evts) =>
                  EndsWith(MapGet(adapter.accumulatedText, <<"thinking", 0>>, <<>>),
                           WrappedSummary(evts[k].delta.summary.summary))
----------------------------------------------------------------------------
\* the content_block_start events of a thinking or tool_use block at the
\* index of event k, before k and within the same message
StartsBefore(k) ==
    {j \in 1..(k - 1) :
        /\ evts[j].type = "content_block_start"
        /\ evts[j].index = evts[k].index
        /\ evts[j].content_block.type \in {"thinking", "tool_use"}
        /\ \A m \in (j + 1)..(k - 1) : evts[m].type # "message_start"}

LatestStart(k) == evts[CHOOSE j \in StartsBefore(k) : \A m \in StartsBefore(k) : m <= j]

IsThinkingStart(e) == e.type = "content_block_start" /\ e.content_block.type = "thinking"

\* fragments of a block keep the id given at its start, whatever other
\* blocks' events come in between
FragmentsKeyedByIndex(idOf(_)) ==
    /\ \A k \in 1..Len(evts) :
          IsThinkingStart(evts[k]) =>
              \E n \in 1..Len(out) :
                  /\ out[n].ev = k
                  /\ IsToolCallChunk(out[n].chunk)
                  /\ out[n].chunk.delta.tool_calls[1].function.name = "thinking"
                  /\ out[n].chunk.delta.tool_calls[1].id = idOf(evts[k])
    /\ \A n \in 1..Len(out) :
          (/\ evts[out[n].ev].type \in {"content_block_delta", "content_block_stop"}
           /\ IsToolCallChunk(out[n].chunk)
           /\ StartsBefore(out[n].ev) # {}) =>
              out[n].chunk.delta.tool_calls[1].id = idOf(LatestStart(out[n].ev))

SpecThinkingId(e) ==
    IF e.content_block.type = "thinking" THEN <<"thinking", e.index>> ELSE e.content_block.id

CodeThinkingId(e) ==
    IF e.content_block.type = "thinking" THEN <<"call_thinking", e.index>>
    ELSE e.content_block.id

(* C29 as stated: a thinking block started at index i is announced by a  *)
(* tool-call-start chunk with function name thinking and id thinking_<i>, *)
(* and every later fragment of a thinking or tool_use block carries the  *)
(* id allocated at the start of the block at its index, with events of   *)
(* other blocks in between.                                              *)
C29_ThinkingIdByIndex == FragmentsKeyedByIndex(SpecThinkingId)

(* C29 amended: the same with the id call_thinking_<i> for the thinking  *)
(* block at index i.                                                     *)
C29_CallThinkingIdByIndex == FragmentsKeyedByIndex(CodeThinkingId)

\* a thinking block at 0, a thinking block at 1 started in between, and a
\* fragment of block 1 and then none of block 0 mixed up
C29_Witness ==
    /\ evts = <<ThinkingStart(0, <<>>), ThinkingStart(1, <<>>), ThinkingDelta(1, <<"a">>)>>
    /\ Len(out) = 3
    /\ out[3].chunk.delta.tool_calls[1].id = <<"call_thinking", 1>>
----------------------------------------------------------------------------
\* the step is a processEvent call with a message_delta event
MessageDeltaStep ==
    /\ Len(evts') = Len(evts) + 1
    /\ evts'[Len(evts')].type = "message_delta"

(* C30: a message_delta call returns and emits no chunk and leaves every *)
(* field of the adapter but the stop reason and the usage as it was.     *)
C30_MessageDeltaFrame ==
    [][MessageDeltaStep =>
          /\ lastCall'.returned = None
          /\ lastCall'.emitted = <<>>
          /\ out' = out
          /\ [adapter' EXCEPT !.stopReason = adapter.stopReason,
                              !.usageInfo = adapter.usageInfo] = adapter]_vars

\* a message_delta arrived while a thinking block was open and changed the
\* stop reason and the usage
C30_Witness ==
    /\ Len(evts) = 3
    /\ IsThinkingStart(evts[2])
    /\ evts[3].type = "message_delta"
    /\ adapter.stopReason = "max_tokens"
    /\ adapter.usageInfo # None
    /\ adapter.currentThinkingBlocks = {evts[2].index}
    /\ adapter.messageId = "msg_1"
    /\ Len(out) = 2
----------------------------------------------------------------------------
(* C31 as stated: with no tool_use block in the message the terminal     *)
(* chunk's finish reason is stop for end_turn and stop_sequence, length  *)
(* for max_tokens, and null for every other stop reason, tool_use        *)
(* included, and when none was delivered.                                *)
C31_FinishReasonMapping ==
    (OneMessage /\ ~BlockStarted("tool_use")) =>
        out[Len(out)].chunk.finish_reason =
            CASE DeliveredStopReason \in {"end_turn", "stop_sequence"} -> "stop"
              [] DeliveredStopReason = "max_tokens" -> "length"
              [] OTHER -> Null

(* C31 amended: the same, but the stop reason tool_use gives the finish  *)
(* reason tool_calls also when the message had no tool_use block.        *)
C31_FinishReasonMappingToolUse ==
    (OneMessage /\ ~BlockStarted("tool_use")) =>
        out[Len(out)].chunk.finish_reason =
            CASE DeliveredStopReason \in {"end_turn", "stop_sequence"} -> "stop"
              [] DeliveredStopReason = "max_tokens" -> "length"
              [] DeliveredStopReason = "tool_use" -> "tool_calls"
              [] OTHER -> Null

\* a message with a text block that ran out of tokens
C31_Witness ==
    /\ OneMessage
    /\ BlockStarted("text")
    /\ ~BlockStarted("tool_use")
    /\ DeliveredStopReason = "max_tokens"
    /\ out[Len(out)].chunk.finish_reason = "length"
----------------------------------------------------------------------------
\* event k is a delta or a stop for an index at which no block was started
\* before it in the message
Unstarted(k) ==
    /\ evts[k].type \in {"content_block_delta", "content_block_stop"}
    /\ \A j \in 1..(k - 1) :
          (evts[j].type = "content_block_start" /\ evts[j].index = evts[k].index)
              => \E m \in (j + 1)..(k - 1) : evts[m].type = "message_start"

ChunksOf(k) == SelectSeq(out, LAMBDA o : o.ev = k)

(* C32: a delta or stop for a block index without content_block_start    *)
(* raises no fault and is answered by its delta type: a text_delta by a  *)
(* content chunk with its text, a thinking_delta or input_json_delta by  *)
(* one argument fragment with its payload, a content_block_stop by no    *)
(* chunk; the only call that throws is the one for an error event, and   *)
(* a message_stop that follows still gives the terminal chunk.           *)
C32_UnstartedBlockTolerated ==
    /\ \A k \in 1..Len(evts) :
          Unstarted(k) =>
              LET e == evts[k]
                  cs == ChunksOf(k)
              IN CASE e.type = "content_block_stop" -> cs = <<>>
                   [] e.delta.type = "text_delta" ->
                        Len(cs) = 1 /\ cs[1].chunk.delta = [content |-> e.delta.text]
                   [] e.delta.type = "thinking_delta" ->
                        /\ Len(cs) = 1
                        /\ IsToolCallChunk(cs[1].chunk)
                        /\ cs[1].chunk.delta.tool_calls[1].function.arguments =
                              escapeJsonString(e.delta.thinking)
                   [] e.delta.type = "input_json_delta" ->
                        /\ Len(cs) = 1
                        /\ IsToolCallChunk(cs[1].chunk)
                        /\ cs[1].chunk.delta.tool_calls[1].function.arguments =
                              e.delta.partial_json
    /\ lastCall.thrown # None => evts[Len(evts)].type = "error"
    /\ phase = "stopped" => IsTerminalChunk(out[Len(out)].chunk) /\ out[Len(out)].ev = Len(evts)

\* fragments for blocks that were never started, then a message_stop that
\* is answered as usual
C32_Witness ==
    /\ evts = <<MessageStartEvent, InputJsonDelta(1, <<"1">>), BlockStop(0), MessageStopEvent>>
    /\ Len(out) = 3
    /\ out[2].chunk.delta.tool_calls[1].function.arguments = <<"1">>
    /\ lastCall.thrown = None
----------------------------------------------------------------------------
(* C33: a frame that does not parse leaves the registry entries (but for *)
(* the sender's heartbeat), the affinity map, every connection's bound   *)
(* request and adapter, every request and every listener as they were.   *)
C33_MalformedFrameOnlyLogged ==
    [][(lastCall' = ParseFailure /\ nFrames' = nFrames + 1) =>
          /\ Sessions(clients') = Sessions(clients)
          /\ conversationToClient' = conversationToClient
          /\ wsData' = wsData
          /\ requests' = requests
          /\ listeners' = listeners
          /\ sent' = sent]_vars

\* a bad frame from a tab that holds a conversation and a streaming
\* request with one chunk written
C33_Witness ==
    /\ lastCall = ParseFailure
    /\ nFrames = 2
    /\ Len(requests) = 1
    /\ requests[1].mode = "stream"
    /\ Len(requests[1].writer.frames) = 1
    /\ ~requests[1].writer.closed
    /\ wsData[requests[1].client].openaiRequestId = Some(1)
    /\ "conv1" \in DOMAIN conversationToClient
    /\ conversationToClient["conv1"] = requests[1].client
----------------------------------------------------------------------------
\* event k closed a thinking or tool_use block: a content_block_stop that
\* was answered by a closing fragment
ClosedAt(k) ==
    /\ evts[k].type = "content_block_stop"
    /\ \E n \in 1..Len(out) : out[n].ev = k /\ IsToolCallChunk(out[n].chunk)

\* event m comes after k for the same block: same index, no message_start
\* and no content_block_start at that index in between or at m
SameBlockLater(k, m) ==
    /\ k < m
    /\ evts[m].type \in {"content_block_delta", "content_block_stop"}
    /\ evts[m].index = evts[k].index
    /\ \A j \in (k + 1)..(m - 1) :
          /\ evts[j].type # "message_start"
          /\ evts[j].type = "content_block_start" => evts[j].index # evts[k].index

(* C34: once the closing fragment of a thinking or tool_use block has    *)
(* been emitted, no later delta or content_block_stop for that block     *)
(* index in the same message is answered by an argument fragment, so     *)
(* each block gets at most one closing fragment.                         *)
C34_ClosedBlockStaysClosed ==
    \A k, m \in 1..Len(evts) :
        (ClosedAt(k) /\ SameBlockLater(k, m)) =>
            \A n \in 1..Len(out) : out[n].ev = m => ~IsToolCallChunk(out[n].chunk)
----------------------------------------------------------------------------
\* the connections opened for tab c, and the newest of them
SocketsOf(c) == {n \in DOMAIN sockets.conns : sockets.conns[n].clientId = c}

Newest(c) == CHOOSE n \in SocketsOf(c) : \A m \in SocketsOf(c) : m <= n

(* C35: a tab whose newest connection is open is in the registry: the    *)
(* close or the eviction of an older connection of the tab does not      *)
(* remove the entry of the newer one.                                    *)
C35_OpenConnectionRegistered ==
    \A c \in ClientIds :
        (SocketsOf(c) # {} /\ sockets.conns[Newest(c)].state = "open") => HasClient(c)

(* C36: every affinity entry names a tab that is in the registry and     *)
(* whose set of touched conversations contains the conversation.         *)
C36_NoDanglingAffinity ==
    \A conv \in DOMAIN conversationToClient :
        \E k \in DOMAIN clients :
            /\ clients[k].clientId = conversationToClient[conv]
            /\ conv \in clients[k].conversations
----------------------------------------------------------------------------
(* C37: only the message the worker produced for a request contributes   *)
(* to it and completes it.  That message begins with a message_start     *)
(* after the dispatch, so the first chunk produced for a request is the  *)
(* role chunk of its message_start, and a request that was completed     *)
(* without a fault has one.                                              *)
C37_OnlyOwnMessageCompletes ==
    \A r \in Requests :
        /\ Len(requests[r].produced) > 0 => IsRoleChunk(requests[r].produced[1].chunk)
        /\ (requests[r].mode # "rejected" /\ Terminated(r) /\ requests[r].faults = 0) =>
              \E k \in 1..Len(requests[r].produced) : IsRoleChunk(requests[r].produced[k].chunk)
----------------------------------------------------------------------------
\* request r has had its completion signal: the end marker and the end of
\* the stream, or one completion object
Completed(r) ==
    IF requests[r].mode = "stream"
    THEN /\ requests[r].writer.closed
         /\ requests[r].writer.frames # <<>>
         /\ requests[r].writer.frames[Len(requests[r].writer.frames)].frame = "done"
    ELSE /\ Len(requests[r].resolved) = 1
         /\ requests[r].resolved[1].status = 200

\* a later request was dispatched to the worker of request r
Unbound(r) ==
    \E q \in Requests : q > r /\ requests[q].client = requests[r].client

(* C38: with worker frames processed fairly, a request dispatched to a   *)
(* worker that sends message_start ... message_stop without a fault and  *)
(* stays bound to it is eventually completed (end marker and closed      *)
(* stream, or one completion object); and the step that completes a      *)
(* request leaves its worker with neither request id nor adapter.        *)
C38_AnsweredRequestCompletes ==
    /\ \A r \in 1..MaxRequests :
          []((r \in Requests /\ requests[r].mode # "rejected") =>
                <>(r \in Requests /\ requests[r].mode # "rejected"
                      /\ (Completed(r) \/ Unbound(r))))
    /\ [][\A r \in Requests :
             (requests[r].mode # "rejected" /\ ~Completed(r)
                 /\ Len(requests') = Len(requests) /\ Completed(r)') =>
                 wsData'[requests[r].client] = [adapter |-> None, openaiRequestId |-> None]]_vars

\* a streaming request answered by the three frames of its message
C38_Witness ==
    /\ Len(requests) = 1
    /\ requests[1].mode = "stream"
    /\ Completed(1)
    /\ Len(requests[1].produced) = 3
    /\ requests[1].faults = 0
    /\ wsData[requests[1].client] = [adapter |-> None, openaiRequestId |-> None]
----------------------------------------------------------------------------
\* the answer createSynchronousResponse gives for an empty chunk buffer
NoChunksResponse ==
    ErrorResponse(500, "No response chunks received before completion",
                  "server_error", "error_processing_response")

(* C39: a non-stream request is never answered with the 'No response     *)
(* chunks received before completion' error: when its completion signal  *)
(* is handled the chunk buffer holds at least the terminal chunk of      *)
(* message_stop.                                                         *)
C39_SyncBufferNonEmptyAtCompletion ==
    \A r \in Requests :
        requests[r].mode = "sync" =>
            /\ \A k \in 1..Len(requests[r].resolved) : requests[r].resolved[k] # NoChunksResponse
            /\ (\E k \in 1..Len(requests[r].resolved) : requests[r].resolved[k].status = 200) =>
                  /\ requests[r].chunks # <<>>
                  /\ IsTerminalChunk(requests[r].chunks[Len(requests[r].chunks)])

\* a non-stream request completed by the message_stop of its message
C39_Witness ==
    \E r \in Requests :
        /\ requests[r].mode = "sync"
        /\ Len(requests[r].resolved) = 1
        /\ requests[r].resolved[1].status = 200
        /\ Len(requests[r].chunks) >= 2
        /\ IsTerminalChunk(requests[r].chunks[Len(requests[r].chunks)])
----------------------------------------------------------------------------
\* the adapter and the chunks after feeding the events to the adapter ad, the
\* first of them being event number first of the history
RECURSIVE Replay(_, _, _)
Replay(ad, events, first) ==
    IF events = <<>> THEN [adapter |-> ad, out |-> <<>>]
    ELSE LET r == processEvent(ad, Head(events))
             rest == Replay(r.adapter, Tail(events), first + 1)
         IN [adapter |-> rest.adapter,
             out |-> (IF r.returned = None THEN <<>>
                      ELSE <<[ev |-> first, chunk |-> r.returned[1]]>>) \o rest.out]

\* the chunks of the events from number k on
OutSince(k) == SelectSeq(out, LAMBDA o : o.ev >= k)

(* C40: message_start resets the whole per-message state of the adapter: *)
(* from any message_start on, the adapter and every chunk (closing       *)
(* fragments and terminal finish reason included) are those of a newly   *)
(* constructed adapter fed the same events, whatever block kinds, open   *)
(* sets, buffers, ids, stop reason or usage the earlier events left.     *)
C40_MessageStartResets ==
    \A k \in 1..Len(evts) :
        evts[k].type = "message_start" =>
            \E fresh \in {Replay(NewAdapter, SubSeq(evts, k, Len(evts)), k)} :
                /\ adapter = fresh.adapter
                /\ OutSince(k) = fresh.out

\* a message_start after a tool_use block was left open, then message_stop:
\* the terminal chunk reports no finish reason
C40_Witness ==
    /\ Len(evts) = 3
    /\ evts[1].type = "content_block_start"
    /\ "content_block" \in DOMAIN evts[1]
    /\ evts[1].content_block.type = "tool_use"
    /\ evts[2].type = "message_start"
    /\ evts[3].type = "message_stop"
    /\ Len(out) = 3
    /\ IsRoleChunk(out[2].chunk)
    /\ IsTerminalChunk(out[3].chunk)
    /\ out[3].chunk.finish_reason = Null

====
